---- MODULE Spec2Model ----
(***************************************************************************)
(* DocMind Studio: the sequential five-agent generation pipeline           *)
(* (src/agents.py), the text helpers it relies on (src/utils.py) and the   *)
(* session that drives them (src/app.py).                                  *)
(*                                                                         *)
(* A text is a sequence of items [src, off, len]: "the len characters      *)
(* starting at offset off of the string named src".  A literal string is   *)
(* named by itself (Str); a single character is a literal of length 1      *)
(* (Ch); the text an agent generated, or the transcript handed in, is      *)
(* named by where it comes from (Bulk), so that a prompt can be asked      *)
(* whose text it holds.  Slicing and concatenation are exact on this       *)
(* representation, with the limits of the source (3000, 8000) unscaled.    *)
(***************************************************************************)
EXTENDS Integers, Sequences, FiniteSets, TLC

(* ------------------------------ bounds -------------------------------- *)

\* An agent's output is 0, 1, .. MaxLenSteps half context windows long.
MaxLenSteps == 2
\* A stage's measured duration is 0 or MaxDuration.
MaxDuration == 1
\* chunk_transcript is applied to texts of at most MaxChars characters ...
MaxChars == 5
\* ... and to texts of at most MaxWords one-space- or blank-line-separated words,
MaxWords == 9
\* with max_words in 0 .. MaxMaxWords.
MaxMaxWords == 7
\* A final document is any string of at most MaxDocChars characters of Markdown.
MaxDocChars == 3
\* A blog document has at most MaxBodyLines lines below its metadata lines.
MaxBodyLines == 3
\* The transcript service returns at most MaxEntries entries.
MaxEntries == 2

(* ------------------------------- texts -------------------------------- *)

Str(s, n) == IF n = 0 THEN <<>> ELSE <<[src |-> s, off |-> 0, len |-> n]>>
Ch(c) == [src |-> c, off |-> 0, len |-> 1]
Bulk(origin, n) == Str(origin, n)

RECURSIVE TextLen(_)
TextLen(t) ==
  IF t = <<>> THEN 0
  ELSE IF Len(t) = 1 THEN t[1].len
  ELSE LET h == Len(t) \div 2
       IN TextLen(SubSeq(t, 1, h)) + TextLen(SubSeq(t, h + 1, Len(t)))

\* Python t[:n] for n >= 0.
RECURSIVE Prefix(_, _)
Prefix(t, n) ==
  IF n <= 0 \/ t = <<>> THEN <<>>
  ELSE IF Len(t) = 1 THEN (IF t[1].len <= n THEN t ELSE <<[t[1] EXCEPT !.len = n]>>)
  ELSE LET h == Len(t) \div 2
           head == SubSeq(t, 1, h)
           head_len == TextLen(head)
       IN IF head_len >= n THEN Prefix(head, n)
          ELSE head \o Prefix(SubSeq(t, h + 1, Len(t)), n - head_len)

\* The number of characters of text t that come from origin o.
RECURSIVE CharsFrom(_, _)
CharsFrom(t, o) ==
  IF t = <<>> THEN 0
  ELSE (IF t[1].src = o THEN t[1].len ELSE 0) + CharsFrom(Tail(t), o)

\* Text t holds the whole of text u, as one contiguous piece.
Holds(t, u) ==
  \E p \in 0..(Len(t) - Len(u)) : SubSeq(t, p + 1, p + Len(u)) = u

\* "sep".join(ts)
RECURSIVE Join(_, _)
Join(sep, ts) ==
  IF ts = <<>> THEN <<>>
  ELSE IF Len(ts) = 1 THEN ts[1]
  ELSE LET h == Len(ts) \div 2
       IN Join(sep, SubSeq(ts, 1, h)) \o sep \o Join(sep, SubSeq(ts, h + 1, Len(ts)))

(* --------------------------- Python dict ------------------------------ *)
\* An insertion-ordered mapping: a sequence of <<key, value>> with unique keys.

Keys(d) == [k \in 1..Len(d) |-> d[k][1]]
Values(d) == [k \in 1..Len(d) |-> d[k][2]]
HasKey(d, key) == \E k \in 1..Len(d) : d[k][1] = key
DictGet(d, key, default) ==
  IF HasKey(d, key) THEN d[CHOOSE k \in 1..Len(d) : d[k][1] = key][2] ELSE default
\* Faulty variant: the mapping is rebuilt around the new entry.
DictSet_reset(d, key, value) == <<<<key, value>>>>
\* d[key] = value: a new key goes last, an old key keeps its place.
DictSet(d, key, value) ==
  IF HasKey(d, key)
  THEN [k \in 1..Len(d) |-> IF d[k][1] = key THEN <<key, value>> ELSE d[k]]
  ELSE Append(d, <<key, value>>)

(* ------------------------ str.split / str.join ------------------------ *)
\* The whitespace characters of the modelled alphabet.  Every other item, a
\* multi-character literal or generated text included, is free of whitespace.
Whitespace == {" ", "\n", "\t"}
IsSpace(x) == x.src \in Whitespace

\* Python t.split(): the maximal whitespace-free pieces of t, in order.  The
\* pieces of the two halves of t, the piece that spans the cut put together.
RECURSIVE Split(_)
Split(t) ==
  IF t = <<>> THEN <<>>
  ELSE IF Len(t) = 1 THEN (IF IsSpace(t[1]) THEN <<>> ELSE <<t>>)
  ELSE LET h == Len(t) \div 2
           l == Split(SubSeq(t, 1, h))
           r == Split(SubSeq(t, h + 1, Len(t)))
       IN IF IsSpace(t[h]) \/ IsSpace(t[h + 1]) THEN l \o r
          ELSE SubSeq(l, 1, Len(l) - 1) \o <<l[Len(l)] \o r[1]>> \o Tail(r)

(* ----------------------- agents.py: create_tasks ---------------------- *)

\* transcript[:8000] in research_task's description
TRANSCRIPT_LIMIT == 8000
\* context_summary[:3000] in run_agent_pipeline
CONTEXT_LIMIT == 3000

Tones == {"Professional", "Casual", "Educational", "Storytelling", "Technical"}
\* tone_instructions: one fixed sentence per tone (named by its key; its length)
tone_instructions(tone) ==
  Str("tone_instructions[" \o tone \o "]",
      CASE tone = "Professional" -> 106
        [] tone = "Casual"       -> 112
        [] tone = "Educational"  -> 107
        [] tone = "Storytelling" -> 102
        [] tone = "Technical"    -> 107)
\* tone_instructions.get(tone, tone_instructions["Professional"])
tone_desc(tone) ==
  IF tone \in Tones THEN tone_instructions(tone) ELSE tone_instructions("Professional")

\* f"{word_count}": the decimal digits of word_count
Digits(n) == IF n < 10 THEN 1 ELSE IF n < 100 THEN 2 ELSE IF n < 1000 THEN 3 ELSE 4
FmtInt(n) == Str(ToString(n), Digits(n))

\* The description of each of the five tasks create_tasks builds.  The fixed
\* instruction text between the interpolated values is named by its place.
research_description(transcript) ==
  Str("research_task:head", 376) \o Prefix(transcript, TRANSCRIPT_LIMIT)
    \o Str("research_task:tail", 93)
strategy_description(word_count) ==
  Str("strategy_task:head", 83) \o FmtInt(word_count)
    \o Str("strategy_task:requirements", 280) \o FmtInt(word_count)
    \o Str("strategy_task:tail", 90)
seo_description(seo_mode) ==
  Str("seo_task:required", 297)
    \o (IF seo_mode = "Advanced" THEN Str("seo_task:advanced", 264) ELSE <<>>)
    \o Str("seo_task:format", 53)
write_description(tone, word_count) ==
  Str("write_task:head", 101) \o tone_desc(tone)
    \o Str("write_task:target", 38) \o FmtInt(word_count)
    \o Str("write_task:requirements", 922)
review_description == Str("review_task", 670)

\* create_tasks(...)[i].description, i = 0..4
create_tasks(idx, tr, tn, wc, mode) ==
  CASE idx = 0 -> research_description(tr)
    [] idx = 1 -> strategy_description(wc)
    [] idx = 2 -> seo_description(mode)
    [] idx = 3 -> write_description(tn, wc)
    [] idx = 4 -> review_description

(* -------------------- agents.py: run_agent_pipeline ------------------- *)

\* Faulty variant: the SEO optimizer listed before the content strategist.
agent_order_swapped ==
  << <<"research_analyst", "Research Analyst">>,
     <<"seo_optimizer", "SEO Optimizer">>,
     <<"content_strategist", "Content Strategist">>,
     <<"blog_writer", "Blog Writer">>,
     <<"quality_reviewer", "Quality Reviewer">> >>
agent_order ==
  << <<"research_analyst", "Research Analyst">>,
     <<"content_strategist", "Content Strategist">>,
     <<"seo_optimizer", "SEO Optimizer">>,
     <<"blog_writer", "Blog Writer">>,
     <<"quality_reviewer", "Quality Reviewer">> >>
NumAgents == Len(agent_order)
agent_key(i) == agent_order[i + 1][1]
agent_name(i) == agent_order[i + 1][2]

\* Faulty variant: an unlisted word_count gets the budget of the smallest target.
max_tokens_map_low_default(word_count) ==
  CASE word_count = 800  -> 1500
    [] word_count = 1500 -> 2500
    [] word_count = 2500 -> 4000
    [] word_count = 4000 -> 6000
    [] OTHER -> 1500
\* max_tokens_map.get(word_count, 2500)
max_tokens_map(word_count) ==
  CASE word_count = 800  -> 1500
    [] word_count = 1500 -> 2500
    [] word_count = 2500 -> 4000
    [] word_count = 4000 -> 6000
    [] OTHER -> 2500

\* "\n\n".join([f"Previous agent output:\n{v}" for v in results.values()])
PreviousLabel == Str("Previous agent output:\n", 23)
\* Faulty variant: the latest result comes first.
context_summary_latest_first(res) ==
  Join(<<Ch("\n"), Ch("\n")>>,
       [k \in 1..Len(res) |-> PreviousLabel \o res[Len(res) + 1 - k][2]])
context_summary(res) ==
  Join(<<Ch("\n"), Ch("\n")>>, [k \in 1..Len(res) |-> PreviousLabel \o res[k][2]])

\* Faulty variant: the previous results appended without the [:3000] cut.
task_description_uncut(idx, res, tr, tn, wc, mode) ==
  IF idx = 0
  THEN create_tasks(idx, tr, tn, wc, mode)
  ELSE create_tasks(idx, tr, tn, wc, mode)
         \o Str("\n\nContext from previous agents:\n", 32)
         \o context_summary(res)
\* The description the stage's crew is kicked off with (lines 257-273).
task_description(idx, res, tr, tn, wc, mode) ==
  IF idx = 0
  THEN create_tasks(idx, tr, tn, wc, mode)
  ELSE create_tasks(idx, tr, tn, wc, mode)
         \o Str("\n\nContext from previous agents:\n", 32)
         \o Prefix(context_summary(res), CONTEXT_LIMIT)

VARIABLES
  \* run_agent_pipeline's arguments
  transcript, tone, word_count, seo_mode, progress_callbacks,
  \* its locals: the place in its code, the loop index, the token budget, the
  \* result mapping, the last measured duration, the current task.description
  pc, i, max_tokens, results, duration, description,
  \* what its environment sees: the calls it makes, in order (callbacks and
  \* crew kickoffs, with each kickoff's outcome), the prompt and token budget of
  \* each kickoff, the error the completion client raised, and what the caller
  \* gets: the exception raised ("none" when none) or <<the dict returned>>
  log, prompts, client_error, raised, returned,
  \* chunk_transcript's arguments and <<its return value>>, and <<the return
  \* value of a second call on that value with the same max_words>>
  raw_transcript, max_words, chunked, rechunked,
  \* st.session_state.blog_content, the document clean_blog_for_display is
  \* called with, and <<clean_blog_for_display's return value>>
  blog_content, clean_blog,
  \* app.py: the deployment's API key ("" when none is configured) and the
  \* session state (stage, error as <<>> for None or <<the message>>, video_id,
  \* transcript_raw, seo_metadata as <<>> for {} or <<the dict>>,
  \* generation_time, agent_statuses in the order of the agents)
  GROQ_API_KEY, stage, error, video_id, transcript_raw, seo_metadata, generation_time,
  agent_statuses,
  \* where the script run is ("waiting" for the user once it has ended, about
  \* to fetch the transcript, inside run_agent_pipeline) and <<what
  \* fetch_transcript returned to this script run, with the video id it was
  \* called with>>, <<str(e) of the exception
  \* the script run's handler caught>>, and the content of the sidebar's URL box
  script, fetched, err_str, url_field,
  \* two concurrent calls of run_agent_pipeline: each call's arguments and
  \* locals, and the dicts the calls have made
  frame, heap

pipeline_vars ==
  <<transcript, tone, word_count, seo_mode, progress_callbacks, pc, i, max_tokens,
    results, duration, description, log, prompts, client_error, raised, returned>>
chunk_vars == <<raw_transcript, max_words, chunked, rechunked>>
blog_vars == <<blog_content, clean_blog>>
session_vars ==
  <<GROQ_API_KEY, stage, error, video_id, transcript_raw, seo_metadata, generation_time,
    agent_statuses, script, fetched, err_str, url_field>>
calls_vars == <<frame, heap>>
vars == <<pipeline_vars, chunk_vars, blog_vars, session_vars, calls_vars>>
\* Everything but the variables of one part of the program.
not_pipeline_vars == <<chunk_vars, blog_vars, session_vars, calls_vars>>
not_chunk_vars == <<pipeline_vars, blog_vars, session_vars, calls_vars>>
not_blog_vars == <<pipeline_vars, chunk_vars, session_vars, calls_vars>>

\* The inputs of the modelled runs.
OutputLens == {k * (CONTEXT_LIMIT \div 2) : k \in 0..MaxLenSteps}
Transcripts == {Bulk("transcript", 1), Bulk("transcript", TRANSCRIPT_LIMIT + 1)}
Configs ==
  { <<"Casual", 800, "Basic">>, <<"Professional", 1500, "Advanced">>,
    <<"Poetic", 1234, "Basic">> }
CallbackKeys == {"on_agent_start", "on_agent_complete"}
\* None, or a dict holding some of the two callbacks
ProgressCallbacks ==
  {[none |-> TRUE, keys |-> {}]} \cup {[none |-> FALSE, keys |-> K] : K \in SUBSET CallbackKeys}
\* What a failing crew kickoff raises (the provider's error, by kind).
ClientErrors == {"rate_limit", "invalid_api_key", "token_limit", "transport"}

\* `progress_callbacks and key in progress_callbacks`
Supplies(cbs, key) == ~cbs.none /\ cbs.keys # {} /\ key \in cbs.keys

Event(ev, idx) == [ev |-> ev, idx |-> idx, name |-> agent_name(idx)]

PipelineIdle ==
  /\ transcript = <<>> /\ tone = "" /\ word_count = 0 /\ seo_mode = ""
  /\ progress_callbacks = [none |-> TRUE, keys |-> {}]
  /\ pc = "idle" /\ i = 0 /\ max_tokens = 0 /\ results = <<>> /\ duration = 0
  /\ description = <<>> /\ log = <<>> /\ prompts = <<>> /\ client_error = "none"
  /\ raised = "none" /\ returned = <<>>
ChunkIdle == raw_transcript = <<>> /\ max_words = 0 /\ chunked = <<>> /\ rechunked = <<>>
BlogIdle == blog_content = <<>> /\ clean_blog = <<>>
\* init_session_state's defaults (app.py:290-320), no script run under way.
Pending == [status |-> "pending", duration |-> 0]
SessionIdle ==
  /\ stage = "input" /\ error = <<>> /\ video_id = "None" /\ transcript_raw = <<>>
  /\ seo_metadata = <<>> /\ generation_time = 0
  /\ agent_statuses = [k \in 1..NumAgents |-> Pending]
  /\ script = "waiting" /\ fetched = <<>> /\ err_str = <<>> /\ url_field = ""
\* The other parts of the program, in a run of one part alone.
AppIdle == GROQ_API_KEY = "gsk" /\ SessionIdle
CallsIdle == frame = <<>> /\ heap = <<>>

\* A call of run_agent_pipeline, about to execute its first statement.
Init ==
  /\ transcript \in Transcripts
  /\ \E c \in Configs : tone = c[1] /\ word_count = c[2] /\ seo_mode = c[3]
  /\ progress_callbacks \in ProgressCallbacks
  /\ pc = "entry" /\ i = 0 /\ max_tokens = 0 /\ results = <<>> /\ duration = 0
  /\ description = <<>> /\ log = <<>> /\ prompts = <<>> /\ client_error = "none"
  /\ raised = "none" /\ returned = <<>>
  /\ ChunkIdle /\ BlogIdle /\ AppIdle /\ CallsIdle

\* Lines 229-248: the token budget, the llm and the agents, results = {}.
Setup ==
  /\ pc = "entry"
  /\ max_tokens' = max_tokens_map(word_count)
  /\ results' = <<>>
  /\ i' = 0
  /\ pc' = "on_agent_start"
  /\ UNCHANGED <<transcript, tone, word_count, seo_mode, progress_callbacks, duration,
                 description, log, prompts, client_error, raised, returned, not_pipeline_vars>>

\* Lines 251-252: on_agent_start(i, agent_name), when supplied.  The callback is
\* the caller's code: it returns, or it raises and the exception leaves the run.
OnAgentStartReturns ==
  /\ pc = "on_agent_start"
  /\ Supplies(progress_callbacks, "on_agent_start")
  /\ log' = Append(log, Event("on_agent_start", i))
  /\ pc' = "build"
  /\ UNCHANGED <<transcript, tone, word_count, seo_mode, progress_callbacks, i, max_tokens,
                 results, duration, description, prompts, client_error, raised, returned,
                 not_pipeline_vars>>
OnAgentStartRaises ==
  /\ pc = "on_agent_start"
  /\ Supplies(progress_callbacks, "on_agent_start")
  /\ log' = Append(log, Event("on_agent_start", i))
  /\ raised' = "callback_error"
  /\ pc' = "raised"
  /\ UNCHANGED <<transcript, tone, word_count, seo_mode, progress_callbacks, i, max_tokens,
                 results, duration, description, prompts, client_error, returned, not_pipeline_vars>>
OnAgentStartSkipped ==
  /\ pc = "on_agent_start"
  /\ ~Supplies(progress_callbacks, "on_agent_start")
  /\ pc' = "build"
  /\ UNCHANGED <<transcript, tone, word_count, seo_mode, progress_callbacks, i, max_tokens,
                 results, duration, description, log, prompts, client_error, raised,
                 returned, not_pipeline_vars>>

\* Faulty variant: the prompt is stamped with the last measured duration.
BuildTask_timed ==
  /\ pc = "build"
  /\ description' = task_description(i, results, transcript, tone, word_count, seo_mode)
                      \o FmtInt(duration)
  /\ pc' = "kickoff"
  /\ UNCHANGED <<transcript, tone, word_count, seo_mode, progress_callbacks, i, max_tokens,
                 results, duration, log, prompts, client_error, raised, returned,
                 not_pipeline_vars>>
\* Lines 254-279: a fresh task list, the stage's task, the previous results
\* appended to its description, the one-task crew.
BuildTask ==
  /\ pc = "build"
  /\ description' = task_description(i, results, transcript, tone, word_count, seo_mode)
  /\ pc' = "kickoff"
  /\ UNCHANGED <<transcript, tone, word_count, seo_mode, progress_callbacks, i, max_tokens,
                 results, duration, log, prompts, client_error, raised, returned,
                 not_pipeline_vars>>

\* Lines 281-283: mini_crew.kickoff() returns the agent's text, of any length;
\* the duration is measured and the text stored under the agent's key.
KickoffReturnsWith(outputs, durations) ==
  /\ pc = "kickoff"
  /\ \E out \in outputs, d \in durations :
       /\ results' = DictSet(results, agent_key(i), out)
       /\ duration' = d
  /\ prompts' = Append(prompts, [idx |-> i, prompt |-> description, max_tokens |-> max_tokens])
  /\ log' = log \o <<Event("kickoff", i), Event("kickoff_returned", i)>>
  /\ pc' = "on_agent_complete"
  /\ UNCHANGED <<transcript, tone, word_count, seo_mode, progress_callbacks, i, max_tokens,
                 description, client_error, raised, returned, not_pipeline_vars>>
KickoffReturns ==
  KickoffReturnsWith({Bulk(agent_key(i), n) : n \in OutputLens}, {0, MaxDuration})
\* Faulty variants: a failed kickoff whose error is wrapped in the pipeline's
\* own; that ends the loop and lets the run finalize what it has; that is tried
\* again.
KickoffRaises_wrapped ==
  /\ pc = "kickoff"
  /\ \E e \in ClientErrors : client_error' = e /\ raised' = "PipelineError"
  /\ prompts' = Append(prompts, [idx |-> i, prompt |-> description, max_tokens |-> max_tokens])
  /\ log' = log \o <<Event("kickoff", i), Event("kickoff_raised", i)>>
  /\ pc' = "raised"
  /\ UNCHANGED <<transcript, tone, word_count, seo_mode, progress_callbacks, i, max_tokens,
                 results, duration, description, returned, not_pipeline_vars>>
KickoffRaises_partial ==
  /\ pc = "kickoff"
  /\ \E e \in ClientErrors : client_error' = e
  /\ prompts' = Append(prompts, [idx |-> i, prompt |-> description, max_tokens |-> max_tokens])
  /\ log' = log \o <<Event("kickoff", i), Event("kickoff_raised", i)>>
  /\ pc' = "finalize"
  /\ UNCHANGED <<transcript, tone, word_count, seo_mode, progress_callbacks, i, max_tokens,
                 results, duration, description, raised, returned, not_pipeline_vars>>
KickoffRaises_retry ==
  /\ pc = "kickoff"
  /\ \E e \in ClientErrors : client_error' = e
  /\ prompts' = Append(prompts, [idx |-> i, prompt |-> description, max_tokens |-> max_tokens])
  /\ log' = log \o <<Event("kickoff", i), Event("kickoff_raised", i)>>
  /\ pc' = "kickoff"
  /\ UNCHANGED <<transcript, tone, word_count, seo_mode, progress_callbacks, i, max_tokens,
                 results, duration, description, raised, returned, not_pipeline_vars>>
\* Line 281: mini_crew.kickoff() raises; nothing in run_agent_pipeline catches it.
KickoffRaises ==
  /\ pc = "kickoff"
  /\ \E e \in ClientErrors : client_error' = e /\ raised' = e
  /\ prompts' = Append(prompts, [idx |-> i, prompt |-> description, max_tokens |-> max_tokens])
  /\ log' = log \o <<Event("kickoff", i), Event("kickoff_raised", i)>>
  /\ pc' = "raised"
  /\ UNCHANGED <<transcript, tone, word_count, seo_mode, progress_callbacks, i, max_tokens,
                 results, duration, description, returned, not_pipeline_vars>>

\* Line 250: the next agent of agent_order, or the end of the loop.
NextIteration ==
  /\ i' = i + 1
  /\ pc' = IF i + 1 < NumAgents THEN "on_agent_start" ELSE "finalize"

\* Lines 285-286: on_agent_complete(i, agent_name, duration), when supplied.
OnAgentCompleteReturns ==
  /\ pc = "on_agent_complete"
  /\ Supplies(progress_callbacks, "on_agent_complete")
  /\ log' = Append(log, Event("on_agent_complete", i))
  /\ NextIteration
  /\ UNCHANGED <<transcript, tone, word_count, seo_mode, progress_callbacks, max_tokens,
                 results, duration, description, prompts, client_error, raised, returned,
                 not_pipeline_vars>>
OnAgentCompleteRaises ==
  /\ pc = "on_agent_complete"
  /\ Supplies(progress_callbacks, "on_agent_complete")
  /\ log' = Append(log, Event("on_agent_complete", i))
  /\ raised' = "callback_error"
  /\ pc' = "raised"
  /\ UNCHANGED <<transcript, tone, word_count, seo_mode, progress_callbacks, i, max_tokens,
                 results, duration, description, prompts, client_error, returned, not_pipeline_vars>>
OnAgentCompleteSkipped ==
  /\ pc = "on_agent_complete"
  /\ ~Supplies(progress_callbacks, "on_agent_complete")
  /\ NextIteration
  /\ UNCHANGED <<transcript, tone, word_count, seo_mode, progress_callbacks, max_tokens,
                 results, duration, description, log, prompts, client_error, raised,
                 returned, not_pipeline_vars>>

\* Faulty variant: the writer's draft is preferred to the reviewed text.
Outcome_draft_first(res) ==
  LET final_blog == DictGet(res, "blog_writer", DictGet(res, "quality_reviewer", <<>>))
  IN [blog_content |-> final_blog,
      research |-> DictGet(res, "research_analyst", <<>>),
      outline |-> DictGet(res, "content_strategist", <<>>),
      seo |-> DictGet(res, "seo_optimizer", <<>>),
      word_count |-> Len(Split(final_blog))]
\* Lines 288-296: the returned dict.
Outcome(res) ==
  LET final_blog == DictGet(res, "quality_reviewer", DictGet(res, "blog_writer", <<>>))
  IN [blog_content |-> final_blog,
      research |-> DictGet(res, "research_analyst", <<>>),
      outline |-> DictGet(res, "content_strategist", <<>>),
      seo |-> DictGet(res, "seo_optimizer", <<>>),
      word_count |-> Len(Split(final_blog))]
Finalize ==
  /\ pc = "finalize"
  /\ returned' = <<Outcome(results)>>
  /\ pc' = "returned"
  /\ UNCHANGED <<transcript, tone, word_count, seo_mode, progress_callbacks, i, max_tokens,
                 results, duration, description, log, prompts, client_error, raised,
                 not_pipeline_vars>>

Next ==
  \/ Setup
  \/ OnAgentStartReturns \/ OnAgentStartRaises \/ OnAgentStartSkipped
  \/ BuildTask
  \/ KickoffReturns \/ KickoffRaises
  \/ OnAgentCompleteReturns \/ OnAgentCompleteRaises \/ OnAgentCompleteSkipped
  \/ Finalize

Spec == Init /\ [][Next]_vars

(* --------------------- utils.py: chunk_transcript --------------------- *)

Min(a, b) == IF a < b THEN a ELSE b
Max(a, b) == IF a > b THEN a ELSE b
\* Python s[lo:hi] on a list: a negative index counts from the end, and both
\* ends are clamped to the list.
SliceIndex(idx, n) == IF idx < 0 THEN Max(idx + n, 0) ELSE Min(idx, n)
PySlice(s, lo, hi) ==
  LET a == SliceIndex(lo, Len(s))
      b == SliceIndex(hi, Len(s))
  IN IF a >= b THEN <<>> ELSE SubSeq(s, a + 1, b)
\* s[:hi] and s[lo:]
SliceTo(s, hi) == PySlice(s, 0, hi)
SliceFrom(s, lo) == PySlice(s, lo, Len(s))

Space == <<Ch(" ")>>
\* "\n\n[...middle summarized...]\n\n" and "\n\n[...end summarized...]\n\n"
MiddleMarker ==
  <<Ch("\n"), Ch("\n")>> \o Str("[...middle", 10) \o Space \o Str("summarized...]", 14)
    \o <<Ch("\n"), Ch("\n")>>
EndMarker ==
  <<Ch("\n"), Ch("\n")>> \o Str("[...end", 7) \o Space \o Str("summarized...]", 14)
    \o <<Ch("\n"), Ch("\n")>>

\* Faulty variant: `<` for `<=`, a text of exactly max_words words is cut too.
chunk_transcript_strict(raw, mw) ==
  LET words == Split(raw)
  IN IF Len(words) < mw THEN raw
     ELSE LET chunk == mw \div 3
              beg == Join(Space, SliceTo(words, chunk))
              mid_s == Len(words) \div 2 - chunk \div 2
              mid == Join(Space, PySlice(words, mid_s, mid_s + chunk))
              end == Join(Space, SliceFrom(words, -chunk))
          IN beg \o MiddleMarker \o mid \o EndMarker \o end
\* Faulty variant: the window size is rounded up.
chunk_transcript_wide(raw, mw) ==
  LET words == Split(raw)
  IN IF Len(words) <= mw THEN raw
     ELSE LET chunk == (mw + 2) \div 3
              beg == Join(Space, SliceTo(words, chunk))
              mid_s == Len(words) \div 2 - chunk \div 2
              mid == Join(Space, PySlice(words, mid_s, mid_s + chunk))
              end == Join(Space, SliceFrom(words, -chunk))
          IN beg \o MiddleMarker \o mid \o EndMarker \o end
\* Faulty variant: the early return is missing, every text is cut into windows.
chunk_transcript_unguarded(raw, mw) ==
  LET words == Split(raw)
      chunk == mw \div 3
      beg == Join(Space, SliceTo(words, chunk))
      mid_s == Len(words) \div 2 - chunk \div 2
      mid == Join(Space, PySlice(words, mid_s, mid_s + chunk))
      end == Join(Space, SliceFrom(words, -chunk))
  IN beg \o MiddleMarker \o mid \o EndMarker \o end
chunk_transcript(raw, mw) ==
  LET words == Split(raw)
  IN IF Len(words) <= mw THEN raw
     ELSE LET chunk == mw \div 3
              beg == Join(Space, SliceTo(words, chunk))
              mid_s == Len(words) \div 2 - chunk \div 2
              mid == Join(Space, PySlice(words, mid_s, mid_s + chunk))
              end == Join(Space, SliceFrom(words, -chunk))
          IN beg \o MiddleMarker \o mid \o EndMarker \o end

\* The texts chunk_transcript is applied to: every string of at most MaxChars
\* characters over two letters, the space and the newline, and the texts of up
\* to MaxWords distinct words separated by one space or by a blank line.
Alphabet == {Ch("a"), Ch("b"), Ch(" "), Ch("\n")}
ShortTexts == UNION {[1..k -> Alphabet] : k \in 0..MaxChars}
Word(k) == Str("w" \o ToString(k), 1 + Digits(k))
WordyTexts ==
  {Join(sep, [k \in 1..n |-> Word(k)]) : n \in 0..MaxWords,
                                         sep \in {Space, <<Ch("\n"), Ch("\n")>>}}
RawTexts == ShortTexts \cup WordyTexts

InitChunk ==
  /\ PipelineIdle /\ BlogIdle /\ AppIdle /\ CallsIdle
  /\ raw_transcript \in RawTexts
  /\ max_words \in 0..MaxMaxWords
  /\ chunked = <<>>
  /\ rechunked = <<>>

\* A call chunk_transcript(raw_transcript, max_words) returns.
ChunkTranscript ==
  /\ chunked = <<>>
  /\ chunked' = <<chunk_transcript(raw_transcript, max_words)>>
  /\ UNCHANGED <<raw_transcript, max_words, rechunked, not_chunk_vars>>

\* The value returned is passed to chunk_transcript again, max_words the same.
ChunkAgain ==
  /\ chunked # <<>> /\ rechunked = <<>>
  /\ rechunked' = <<chunk_transcript(chunked[1], max_words)>>
  /\ UNCHANGED <<raw_transcript, max_words, chunked, not_chunk_vars>>

NextChunk == ChunkTranscript \/ ChunkAgain

SpecChunk == InitChunk /\ [][NextChunk]_vars

(* ------- agents.py: the returned dict; utils.py: count_words ---------- *)

\* The characters re.sub(r'[#*`\[\]()>~_]', '', text) removes.
\* (The grave accent is named: a TLA+ string cannot hold it.)
GraveAccent == "GRAVE ACCENT"
MarkdownChars == {"#", "*", GraveAccent, "[", "]", "(", ")", ">", "~", "_"}
NotMarkdownChar(x) == x.src \notin MarkdownChars
\* len(re.sub(r'[#*`\[\]()>~_]', '', text).split()), for a text whose Markdown
\* characters are single-character items.
count_words(text) == Len(Split(SelectSeq(text, NotMarkdownChar)))

\* The final documents: every string of at most MaxDocChars characters over a
\* letter, two Markdown characters and the space, and "# Hello **world**".
DocAlphabet == {Ch("a"), Ch("#"), Ch("*"), Ch(" ")}
HelloWorld ==
  <<Ch("#"), Ch(" ")>> \o Str("Hello", 5) \o <<Ch(" "), Ch("*"), Ch("*")>> \o Str("world", 5)
    \o <<Ch("*"), Ch("*")>>
DocTexts == UNION {[1..k -> DocAlphabet] : k \in 0..MaxDocChars} \cup {HelloWorld}

\* The result mappings the last statements of run_agent_pipeline are applied
\* to.  After a complete loop all five keys are present: the mappings of a
\* complete run whose reviewed text is any final document.  The .get() defaults
\* of line 288 also answer for absent keys: every mapping over some of the five
\* keys, in agent order, each output empty or not.
RECURSIVE PartialResultsFrom(_)
PartialResultsFrom(k) ==
  IF k >= NumAgents THEN {<<>>}
  ELSE LET rest == PartialResultsFrom(k + 1)
       IN rest \cup {<<<<agent_key(k), v>>>> \o r : v \in {<<>>, Bulk(agent_key(k), 1)},
                                                   r \in rest}
PartialResults == PartialResultsFrom(0)
CompleteResults(doc) ==
  [k \in 1..NumAgents |->
     <<agent_key(k - 1), IF k = NumAgents THEN doc ELSE Bulk(agent_key(k - 1), 1)>>]

\* run_agent_pipeline past its loop, about to execute line 288.
InitFinalize ==
  /\ transcript = <<>> /\ tone = "" /\ word_count = 0 /\ seo_mode = ""
  /\ progress_callbacks = [none |-> TRUE, keys |-> {}]
  /\ pc = "finalize" /\ i = NumAgents /\ max_tokens = 0 /\ duration = 0
  /\ results \in PartialResults \cup {CompleteResults(doc) : doc \in DocTexts}
  /\ description = <<>> /\ log = <<>> /\ prompts = <<>> /\ client_error = "none"
  /\ raised = "none" /\ returned = <<>>
  /\ ChunkIdle /\ BlogIdle /\ AppIdle /\ CallsIdle

NextFinalize == Finalize

SpecFinalize == InitFinalize /\ [][NextFinalize]_vars

(* ------------------ utils.py: clean_blog_for_display ------------------ *)

Newline == <<Ch("\n")>>
\* Python t.split(c): the pieces between the separators, empty ones included.
\* (c is a single character; so is every item of t that holds it.)
RECURSIVE SplitOnAcc(_, _, _, _)
SplitOnAcc(t, c, cur, acc) ==
  IF t = <<>> THEN Append(acc, cur)
  ELSE IF t[1].src = c THEN SplitOnAcc(Tail(t), c, <<>>, Append(acc, cur))
  ELSE SplitOnAcc(Tail(t), c, Append(cur, t[1]), acc)
SplitOn(t, c) == SplitOnAcc(t, c, <<>>, <<>>)
SplitLines(t) == SplitOn(t, "\n")

\* Python t.strip(): leading and trailing whitespace removed.
RECURSIVE LStrip(_)
LStrip(t) == IF t # <<>> /\ IsSpace(t[1]) THEN LStrip(Tail(t)) ELSE t
RECURSIVE RStrip(_)
RStrip(t) == IF t # <<>> /\ IsSpace(t[Len(t)]) THEN RStrip(SubSeq(t, 1, Len(t) - 1)) ELSE t
Strip(t) == RStrip(LStrip(t))

\* Faulty variant: the secondary keywords are not in the list.
skip_without_secondary == <<"seo title", "meta description", "primary keyword">>
\* skip = ['seo title', 'meta description', 'primary keyword', 'secondary keyword']
skip == <<"seo title", "meta description", "primary keyword", "secondary keyword">>
\* s.lower(), on the literals of the modelled documents
Lower(s) ==
  CASE s = "SEO Title" -> "seo title"
    [] s = "Meta Description" -> "meta description"
    [] s = "Primary Keyword" -> "primary keyword"
    [] s = "Secondary Keywords" -> "secondary keywords"
    [] s = "Rate" -> "rate"
    [] s = "Invalid" -> "invalid"
    [] s = "API" -> "api"
    [] s = "Token" -> "token"
    [] s = "Limit" -> "limit"
    [] OTHER -> s
\* `k in l.lower()`, for a line l that holds a phrase as one item: the phrase
\* itself or its plural.
Mentions(l, k) == \E j \in 1..Len(l) : Lower(l[j].src) \in {k, k \o "s"}
\* `not any(k in l.lower() for k in skip)`
Kept(l) == ~\E j \in 1..Len(skip) : Mentions(l, skip[j])
clean_blog_for_display(blog) == Strip(Join(Newline, SelectSeq(SplitLines(blog), Kept)))

\* The documents: the three labelled lines the writer is told to put at the
\* very top (agents.py:184-187), or none, and below them at most MaxBodyLines
\* lines, each a plain line, an empty line, a sentence that mentions a primary
\* keyword, an indented line, a heading or a labelled Secondary Keywords line.
Labelled(label, value) ==
  <<Ch("*"), Ch("*")>> \o label \o <<Ch(":"), Ch("*"), Ch("*"), Ch(" ")>> \o value
MetadataTop ==
  << Labelled(Str("SEO Title", 9), Str("Title", 5)),
     Labelled(Str("Meta Description", 16), Str("Summary", 7)),
     Labelled(Str("Primary Keyword", 15), Str("tea", 3)) >>
BodyLines ==
  { Str("Body", 4),
    <<>>,
    Str("Choose", 6) \o Space \o Str("a", 1) \o Space \o Str("primary keyword", 15)
      \o Space \o Str("first.", 6),
    Space \o Space \o Str("Body", 4),
    <<Ch("#"), Ch(" ")>> \o Str("Heading", 7),
    Labelled(Str("Secondary Keywords", 18),
             Str("green", 5) \o <<Ch(","), Ch(" ")>> \o Str("black", 5)) }
Bodies == UNION {[1..k -> BodyLines] : k \in 0..MaxBodyLines}
BlogDocs ==
  {Join(Newline, MetadataTop \o b) : b \in Bodies} \cup {Join(Newline, b) : b \in Bodies}

InitBlog ==
  /\ PipelineIdle /\ ChunkIdle /\ AppIdle /\ CallsIdle
  /\ blog_content \in BlogDocs
  /\ clean_blog = <<>>

\* A call clean_blog_for_display(blog_content) returns.
CleanBlogForDisplay ==
  /\ clean_blog = <<>>
  /\ clean_blog' = <<clean_blog_for_display(blog_content)>>
  /\ UNCHANGED <<blog_content, not_blog_vars>>


(* ------------------- utils.py: parse_blog_metadata -------------------- *)

HasColon(l) == \E j \in 1..Len(l) : l[j].src = ":"
FirstColon(l) == CHOOSE j \in 1..Len(l) : l[j].src = ":" /\ \A m \in 1..(j - 1) : l[m].src # ":"
NotStar(x) == x.src # "*"
\* re.sub(r'\*+', '', line.split(':', 1)[-1]).strip()
LineValue(l) == Strip(SelectSeq(SubSeq(l, FirstColon(l) + 1, Len(l)), NotStar))
NonEmpty(t) == t # <<>>
\* [k.strip() for k in val.split(',') if k.strip()]
KeywordList(val) ==
  LET parts == SplitOn(val, ",")
  IN SelectSeq([k \in 1..Len(parts) |-> Strip(parts[k])], NonEmpty)
EmptyMeta ==
  [seo_title |-> <<>>, meta_description |-> <<>>, primary_keyword |-> <<>>,
   secondary_keywords |-> <<>>]
\* The body of the loop over the lines.
ParseLine(meta, l) ==
  IF ~HasColon(l) THEN meta
  ELSE LET val == LineValue(l)
       IN IF val = <<>> THEN meta
          ELSE IF Mentions(l, "seo title") THEN [meta EXCEPT !.seo_title = val]
          ELSE IF Mentions(l, "meta description") THEN [meta EXCEPT !.meta_description = val]
          ELSE IF Mentions(l, "primary keyword") THEN [meta EXCEPT !.primary_keyword = val]
          ELSE IF Mentions(l, "secondary keyword")
               THEN [meta EXCEPT !.secondary_keywords = KeywordList(val)]
          ELSE meta
RECURSIVE ParseLines(_, _)
ParseLines(meta, lines) ==
  IF lines = <<>> THEN meta ELSE ParseLines(ParseLine(meta, lines[1]), Tail(lines))
parse_blog_metadata(blog) == ParseLines(EmptyMeta, SplitLines(blog))

\* A call parse_blog_metadata(blog_content) returns (app.py:840).
ParseBlogMetadata ==
  /\ pc = "idle" /\ seo_metadata = <<>>
  /\ seo_metadata' = <<parse_blog_metadata(blog_content)>>
  /\ UNCHANGED <<GROQ_API_KEY, stage, error, video_id, transcript_raw, generation_time,
                 agent_statuses, script, fetched, err_str, url_field, blog_vars,
                 pipeline_vars, chunk_vars, calls_vars>>

NextBlog == CleanBlogForDisplay \/ ParseBlogMetadata

SpecBlog == InitBlog /\ [][NextBlog]_vars

(* --------------------- utils.py: fetch_transcript --------------------- *)

\* An error text holds a keyword as one item.
InText(e, keywords) == \E j \in 1..Len(e) : e[j].src \in keywords
\* _transcript_error: the message for a lower-cased error text, the first
\* branch that matches.  A fixed message is named by its branch.
_transcript_error(err) ==
  [success |-> FALSE, raw |-> <<>>,
   error_message |->
     IF InText(err, {"no transcript", "could not retrieve", "notranscript", "no captions",
                     "subtitles are disabled", "transcript list", "no element",
                     "could not find"})
     THEN Str("_transcript_error: no captions available", 497)
     ELSE IF InText(err, {"disabled", "transcriptsdisabled"})
     THEN Str("_transcript_error: captions disabled", 143)
     ELSE IF InText(err, {"unavailable", "private", "not available", "video unavailable"})
     THEN Str("_transcript_error: private or unavailable", 110)
     ELSE IF InText(err, {"too many requests", "429"})
     THEN Str("_transcript_error: rate-limiting", 78)
     ELSE IF InText(err, {"ip", "request", "blocked", "requestblocked", "ipblocked"})
     THEN Str("_transcript_error: IP blocked", 709)
     ELSE Str("_transcript_error: could not fetch, Detail: ", 134) \o Prefix(err, 200)]

\* Faulty variant: an entry whose text is empty is kept.
_parse_entries_keep_empty(transcript_data) ==
  [k \in 1..Len(transcript_data) |-> Strip(transcript_data[k])]
\* _parse_entries: the stripped text of each entry, empty ones left out.  (An
\* entry is the text it carries.)
_parse_entries(transcript_data) ==
  SelectSeq([k \in 1..Len(transcript_data) |-> Strip(transcript_data[k])], NonEmpty)

\* fetch_transcript(video_id), by what the transcript service does: the
\* package is missing; the client cannot be built (err); no attempt gives data
\* (err is the last error, empty when none was raised); something else raises
\* (err); an attempt gives a list of entries.  Of the tuple it returns the
\* success flag, the raw text and the error message are modelled.
fetch_transcript(service) ==
  CASE service.does = "ImportError" ->
         [success |-> FALSE, raw |-> <<>>,
          error_message |-> Str("youtube-transcript-api is not installed.", 64)]
    [] service.does = "init fails" ->
         [success |-> FALSE, raw |-> <<>>,
          error_message |-> Str("Could not initialize YouTubeTranscriptApi: ", 43) \o service.err]
    [] service.does = "no data" ->
         _transcript_error(IF service.err # <<>> THEN service.err
                           ELSE Str("no transcript", 13) \o Str(" data returned", 14))
    [] service.does = "raises" -> _transcript_error(service.err)
    [] service.does = "data" ->
         IF service.entries = <<>>
         THEN _transcript_error(Str("no transcript", 13) \o Str(" data returned", 14))
         ELSE LET raw_lines == _parse_entries(service.entries)
              IN IF raw_lines = <<>>
                 THEN [success |-> FALSE, raw |-> <<>>,
                       error_message |-> Str("Transcript appears to be empty.", 57)]
                 ELSE [success |-> TRUE, raw |-> Join(Space, raw_lines),
                       error_message |-> <<>>]

\* What the service is made to do: the error texts, the entries.
ErrorTexts ==
  { <<>>, Str("subtitles are disabled", 22), Str("disabled", 8), Str("private", 7),
    Str("too many requests", 17), Str("request", 7) \o Space \o Str("blocked", 7),
    Str("timed out", 9) }
EntryTexts == { <<>>, Space, Str("w1", 2), Space \o Str("w2", 2) \o Newline }
TranscriptData == UNION {[1..k -> EntryTexts] : k \in 0..MaxEntries}
Service ==
  {[does |-> d, err |-> e, entries |-> <<>>] :
     d \in {"init fails", "no data", "raises"}, e \in ErrorTexts}
  \cup {[does |-> "ImportError", err |-> <<>>, entries |-> <<>>]}
  \cup {[does |-> "data", err |-> <<>>, entries |-> es] : es \in TranscriptData}

(* ------------------------ app.py: the session ------------------------- *)

\* chunk_transcript(..., max_words=7000)
APP_MAX_WORDS == 7000
VideoIds == {"dQw4w9WgXcQ", "9bZkp7q19f0"}
\* What the URL box may hold: nothing, a text that is no YouTube URL, a watch
\* URL and a short URL.
Urls == {"", "not a url", "https://www.youtube.com/watch?v=dQw4w9WgXcQ", "youtu.be/9bZkp7q19f0"}
\* extract_video_id: the 11 characters after the pattern that matches, or None.
extract_video_id(url) ==
  CASE url = "https://www.youtube.com/watch?v=dQw4w9WgXcQ" -> "dQw4w9WgXcQ"
    [] url = "youtu.be/9bZkp7q19f0" -> "9bZkp7q19f0"
    [] OTHER -> "None"
\* app.py:374-383: url_valid, and st.session_state.video_id once the sidebar
\* has run with the box holding url.
url_valid(url) == url # "" /\ extract_video_id(url) # "None"
SidebarVideoId(url, current) == IF url_valid(url) THEN extract_video_id(url) ELSE current
\* What the sidebar lets the user choose.
SessionConfigs == { <<"Professional", 1500, "Basic">>, <<"Technical", 4000, "Advanced">> }
\* {"on_agent_start": on_agent_start, "on_agent_complete": on_agent_complete}
AppCallbacks == [none |-> FALSE, keys |-> CallbackKeys]
\* What an agent returns in a session: some text, and for the last agent also a
\* post with the three labelled lines on top.
SessionOutputs(idx) ==
  {Bulk(agent_key(idx), 1)}
    \cup (IF idx = NumAgents - 1 THEN {Join(Newline, MetadataTop \o <<Str("Body", 4)>>)} ELSE {})

\* `k in err_str.lower()`, for an error text that holds a keyword as one item.
InLower(e, keywords) == \E j \in 1..Len(e) : Lower(e[j].src) \in keywords

\* str(e) of what a failed kickoff raised, a keyword as one item.
ErrStr(e) ==
  CASE e = "rate_limit" -> Str("rate", 4) \o Space \o Str("limit", 5) \o Space \o Str("429", 3)
    [] e = "invalid_api_key" -> Str("invalid", 7) \o Space \o Str("api", 3) \o Space \o Str("key", 3)
    [] e = "token_limit" -> Str("token", 5) \o Space \o Str("limit", 5)
    [] OTHER -> Str("connection reset", 16)
\* Faulty variant: the input-too-large test comes first.
generation_error_message_token_first(e) ==
  IF InLower(e, {"token"}) /\ InLower(e, {"limit"})
  THEN Str("Video is too long for the free tier.", 74)
  ELSE IF InLower(e, {"rate"}) \/ InText(e, {"429"})
  THEN Str("Rate limit reached.", 59)
  ELSE IF InLower(e, {"invalid"}) /\ InLower(e, {"api"})
  THEN Str("Invalid API key.", 66)
  ELSE Str("Generation failed: ", 19) \o Prefix(e, 200) \o Str(". Please try again.", 19)
\* app.py:847-855: the message shown for a failed generation.
generation_error_message(e) ==
  IF InLower(e, {"rate"}) \/ InText(e, {"429"})
  THEN Str("Rate limit reached.", 59)
  ELSE IF InLower(e, {"invalid"}) /\ InLower(e, {"api"})
  THEN Str("Invalid API key.", 66)
  ELSE IF InLower(e, {"token"}) /\ InLower(e, {"limit"})
  THEN Str("Video is too long for the free tier.", 74)
  ELSE Str("Generation failed: ", 19) \o Prefix(e, 200) \o Str(". Please try again.", 19)

\* The texts str(e) may be for an error of a kind: the provider's wording
\* varies in case, a keyword may sit inside a longer word or next to keywords
\* of another kind, and a text may be empty or long.
ErrTexts(e) ==
  {ErrStr(e)} \cup
  CASE e = "rate_limit" ->
         { Str("Error code: ", 12) \o Str("429", 3),
           Str("Rate", 4) \o Space \o Str("Limit", 5) \o Str(" reached", 8) }
    [] e = "invalid_api_key" ->
         { Str("Invalid", 7) \o Space \o Str("API", 3) \o Str(" Key", 4),
           Str("invalid", 7) \o Str(" key", 4),
           Str("invalid", 7) \o Space \o Str("api", 3) \o Space \o Str("token", 5)
             \o Space \o Str("limit", 5) }
    [] e = "token_limit" ->
         { Str("Token", 5) \o Space \o Str("Limit", 5),
           Str("token", 5) \o Str(" expired", 8),
           Str("Rate", 4) \o Space \o Str("limit", 5) \o Str(" reached on ", 12)
             \o Str("token", 5) \o Str("s per minute", 12) }
    [] OTHER ->
         { <<>>, Str("failed to gene", 14) \o Str("rate", 4), Bulk("traceback", 250) }

\* A fresh session, with or without an API key configured.
InitSession ==
  /\ PipelineIdle /\ ChunkIdle /\ BlogIdle
  /\ GROQ_API_KEY \in {"", "gsk"}
  /\ SessionIdle /\ CallsIdle

\* run_agent_pipeline is called (app.py:827-837).
PipelineCalled(tr, tn, wc, mode, cbs) ==
  /\ transcript' = tr /\ tone' = tn /\ word_count' = wc /\ seo_mode' = mode
  /\ progress_callbacks' = cbs
  /\ pc' = "entry" /\ i' = 0 /\ max_tokens' = 0 /\ results' = <<>> /\ duration' = 0
  /\ description' = <<>> /\ log' = <<>> /\ prompts' = <<>> /\ client_error' = "none"
  /\ raised' = "none" /\ returned' = <<>>

\* run_agent_pipeline has returned or raised: its frame is gone.
PipelineLeft ==
  /\ transcript' = <<>> /\ tone' = "" /\ word_count' = 0 /\ seo_mode' = ""
  /\ progress_callbacks' = [none |-> TRUE, keys |-> {}]
  /\ pc' = "idle" /\ i' = 0 /\ max_tokens' = 0 /\ results' = <<>> /\ duration' = 0
  /\ description' = <<>> /\ log' = <<>> /\ prompts' = <<>> /\ client_error' = "none"
  /\ raised' = "none" /\ returned' = <<>>

\* Faulty variant: the button stays enabled in the processing stage; pressed
\* there, it starts the run over.
Generate_while_processing ==
  /\ url_valid(url_field) /\ GROQ_API_KEY # ""
  /\ stage' = "processing"
  /\ error' = <<>>
  /\ blog_content' = <<>>
  /\ agent_statuses' = [k \in 1..NumAgents |-> Pending]
  /\ script' = "fetch"
  /\ fetched' = <<>>
  /\ err_str' = <<>>
  /\ PipelineLeft
  /\ UNCHANGED <<GROQ_API_KEY, video_id, url_field, transcript_raw, seo_metadata,
                 generation_time, clean_blog, chunk_vars, calls_vars>>
\* app.py:375-383, 430, 463-472: a valid URL is in the box and the user presses
\* Generate; the button is enabled outside the processing stage when an API key
\* is configured.  The script reruns into the processing stage.
Generate ==
  /\ script = "waiting"
  /\ url_valid(url_field) /\ GROQ_API_KEY # "" /\ stage # "processing"
  /\ stage' = "processing"
  /\ error' = <<>>
  /\ blog_content' = <<>>
  /\ agent_statuses' = [k \in 1..NumAgents |-> Pending]
  /\ script' = "fetch"
  /\ fetched' = <<>>
  /\ err_str' = <<>>
  /\ UNCHANGED <<GROQ_API_KEY, video_id, url_field, transcript_raw, seo_metadata, generation_time, clean_blog,
                 pipeline_vars, chunk_vars, calls_vars>>

\* app.py:763-769: fetch_transcript reports a failure; back to the input stage
\* with its message, and st.rerun() ends the script run.
FetchFails ==
  /\ script = "fetch"
  /\ \E service \in Service :
       LET r == fetch_transcript(service)
       IN /\ ~r.success
          /\ fetched' = <<[video_id |-> video_id] @@ r>>
          /\ error' = <<r.error_message>>
  /\ stage' = "input"
  /\ script' = "waiting"
  /\ UNCHANGED <<GROQ_API_KEY, video_id, transcript_raw, seo_metadata, generation_time,
                 agent_statuses, err_str, url_field, blog_vars, pipeline_vars, chunk_vars, calls_vars>>

\* app.py:763-837: fetch_transcript succeeds; the raw text is stored, bounded
\* by chunk_transcript and handed to run_agent_pipeline with both callbacks.
FetchSucceedsFrom(services, configs) ==
  /\ script = "fetch"
  /\ \E service \in services, c \in configs :
       LET r == fetch_transcript(service)
       IN /\ r.success
          /\ fetched' = <<[video_id |-> video_id] @@ r>>
          /\ transcript_raw' = r.raw
          /\ PipelineCalled(chunk_transcript(r.raw, APP_MAX_WORDS), c[1], c[2], c[3],
                            AppCallbacks)
  /\ script' = "pipeline"
  /\ UNCHANGED <<GROQ_API_KEY, stage, error, video_id, seo_metadata, generation_time,
                 agent_statuses, err_str, url_field, blog_vars, chunk_vars, calls_vars>>
FetchSucceeds == FetchSucceedsFrom(Service, SessionConfigs)

\* A kickoff of a session's run returns.
SessionKickoffReturns ==
  /\ script = "pipeline"
  /\ KickoffReturnsWith(SessionOutputs(i), {0, MaxDuration})

\* app.py:805-814, called at agents.py:251-252: the agent's status is "active".
AppOnAgentStart ==
  /\ script = "pipeline" /\ pc = "on_agent_start"
  /\ Supplies(progress_callbacks, "on_agent_start")
  /\ agent_statuses' = [agent_statuses EXCEPT ![i + 1].status = "active"]
  /\ log' = Append(log, Event("on_agent_start", i))
  /\ pc' = "build"
  /\ UNCHANGED <<transcript, tone, word_count, seo_mode, progress_callbacks, i, max_tokens,
                 results, duration, description, prompts, client_error, raised, returned,
                 GROQ_API_KEY, stage, error, video_id, transcript_raw, seo_metadata,
                 generation_time, script, fetched, err_str, url_field, blog_vars, chunk_vars,
                 calls_vars>>

\* app.py:816-825, called at agents.py:285-286: the agent's status is
\* "complete", with the duration measured.
AppOnAgentComplete ==
  /\ script = "pipeline" /\ pc = "on_agent_complete"
  /\ Supplies(progress_callbacks, "on_agent_complete")
  /\ agent_statuses' =
       [agent_statuses EXCEPT ![i + 1] = [status |-> "complete", duration |-> duration]]
  /\ log' = Append(log, Event("on_agent_complete", i))
  /\ NextIteration
  /\ UNCHANGED <<transcript, tone, word_count, seo_mode, progress_callbacks, max_tokens,
                 results, duration, description, prompts, client_error, raised, returned,
                 GROQ_API_KEY, stage, error, video_id, transcript_raw, seo_metadata,
                 generation_time, script, fetched, err_str, url_field, blog_vars, chunk_vars,
                 calls_vars>>

\* The user touches a sidebar widget other than the URL box (tone, length, SEO
\* mode) while the pipeline runs.  Streamlit then stops the script at its next
\* call into st, which is the card update of a callback (app.py:809, 821), by
\* an exception no `except Exception` catches, and runs the script again from
\* the top: the stage is still "processing", so the processing stage starts
\* over with fetch_transcript.
ScriptRerun ==
  /\ script' = "fetch"
  /\ fetched' = <<>>
  /\ PipelineLeft
  /\ UNCHANGED <<GROQ_API_KEY, stage, error, video_id, transcript_raw, seo_metadata,
                 generation_time, err_str, url_field, blog_vars, chunk_vars, calls_vars>>
\* app.py:805-809: on_agent_start has set the status when the script is stopped.
AppOnAgentStartInterrupted ==
  /\ script = "pipeline" /\ pc = "on_agent_start"
  /\ Supplies(progress_callbacks, "on_agent_start")
  /\ agent_statuses' = [agent_statuses EXCEPT ![i + 1].status = "active"]
  /\ ScriptRerun
\* app.py:816-821: on_agent_complete has set status and duration when the
\* script is stopped.
AppOnAgentCompleteInterrupted ==
  /\ script = "pipeline" /\ pc = "on_agent_complete"
  /\ Supplies(progress_callbacks, "on_agent_complete")
  /\ agent_statuses' =
       [agent_statuses EXCEPT ![i + 1] = [status |-> "complete", duration |-> duration]]
  /\ ScriptRerun

\* app.py:839-844: run_agent_pipeline returned; the post and its metadata are
\* stored and the session moves to the output stage.
PipelineReturned ==
  /\ script = "pipeline" /\ pc = "returned"
  /\ blog_content' = returned[1].blog_content
  /\ seo_metadata' = <<parse_blog_metadata(returned[1].blog_content)>>
  /\ generation_time' \in {0, MaxDuration}
  /\ stage' = "output"
  /\ script' = "waiting"
  /\ PipelineLeft
  /\ UNCHANGED <<GROQ_API_KEY, error, video_id, transcript_raw, agent_statuses, fetched,
                 err_str, url_field,
                 clean_blog, chunk_vars, calls_vars>>

\* Faulty variant: a rate-limited completion is asked again instead of ending
\* the run.
PipelineRaised_retry ==
  /\ script = "pipeline" /\ pc = "raised"
  /\ IF raised = "rate_limit" /\ Len(prompts) <= NumAgents
     THEN /\ pc' = "kickoff" /\ raised' = "none" /\ client_error' = "none"
          /\ UNCHANGED <<transcript, tone, word_count, seo_mode, progress_callbacks, i,
                         max_tokens, results, duration, description, log, prompts,
                         returned, not_pipeline_vars>>
     ELSE /\ \E e \in ErrTexts(raised) :
               /\ err_str' = <<e>>
               /\ error' = <<generation_error_message(e)>>
          /\ stage' = "input"
          /\ script' = "waiting"
          /\ PipelineLeft
          /\ UNCHANGED <<GROQ_API_KEY, video_id, transcript_raw, seo_metadata,
                         generation_time, agent_statuses, fetched, url_field, blog_vars,
                         chunk_vars, calls_vars>>
\* app.py:846-858: run_agent_pipeline raised; the message for the error is
\* stored and the session moves back to the input stage.
PipelineRaised ==
  /\ script = "pipeline" /\ pc = "raised"
  /\ \E e \in ErrTexts(raised) :
       /\ err_str' = <<e>>
       /\ error' = <<generation_error_message(e)>>
  /\ stage' = "input"
  /\ script' = "waiting"
  /\ PipelineLeft
  /\ UNCHANGED <<GROQ_API_KEY, video_id, transcript_raw, seo_metadata, generation_time,
                 agent_statuses, fetched, url_field, blog_vars, chunk_vars, calls_vars>>

\* app.py:1011, 1019, 1038: the file names of the three download buttons of the
\* output stage, f"docmind-{video_id}.md" and so on, as <<prefix, id, suffix>>.
ExportFileNames(id) == {<<"docmind-", id, ext>> : ext \in {".md", ".txt", ".html"}}
download_buttons == ExportFileNames(video_id)

\* app.py:1050-1061: Generate Another, on the output stage.  st.rerun() runs
\* the script again: the URL box is created with the emptied session url as its
\* default, and it shows either that or, where the widget's key keeps its
\* state, the text it held; a valid URL in it sets the video id again.
GenerateAnother ==
  /\ script = "waiting" /\ stage = "output"
  /\ url_field' \in {"", url_field}
  /\ stage' = "input" /\ video_id' = SidebarVideoId(url_field', "None") /\ blog_content' = <<>>
  /\ transcript_raw' = <<>> /\ seo_metadata' = <<>> /\ error' = <<>>
  /\ agent_statuses' = [k \in 1..NumAgents |-> Pending]
  /\ UNCHANGED <<GROQ_API_KEY, generation_time, script, fetched, err_str, clean_blog,
                 pipeline_vars,
                 chunk_vars, calls_vars>>

\* app.py:365-386: the user changes the text of the URL box while the script
\* waits; the script runs again, and a valid URL sets st.session_state.video_id.
EnterUrl ==
  /\ script = "waiting"
  /\ \E url \in Urls \ {url_field} :
       /\ url_field' = url
       /\ video_id' = SidebarVideoId(url, video_id)
  /\ UNCHANGED <<GROQ_API_KEY, stage, error, transcript_raw, seo_metadata, generation_time,
                 agent_statuses, script, fetched, err_str, blog_vars, pipeline_vars,
                 chunk_vars, calls_vars>>

NextSession ==
  \/ EnterUrl \/ Generate \/ FetchFails \/ FetchSucceeds
  \/ Setup \/ AppOnAgentStart \/ BuildTask \/ SessionKickoffReturns \/ KickoffRaises
  \/ AppOnAgentComplete \/ Finalize
  \/ PipelineReturned \/ PipelineRaised
  \/ GenerateAnother

SpecSession == InitSession /\ [][NextSession]_vars

(* ------------- app.py: a session with the sidebar in use -------------- *)

\* The session on one video's captions and one configuration, the user free to
\* touch the sidebar while the pipeline runs.
InitInteractive == InitSession /\ GROQ_API_KEY = "gsk"
InteractiveFetchSucceeds ==
  FetchSucceedsFrom({[does |-> "data", err |-> <<>>, entries |-> <<Str("w1", 2)>>]},
                    {<<"Professional", 1500, "Basic">>})
InteractiveKickoffReturns ==
  /\ script = "pipeline"
  /\ KickoffReturnsWith(SessionOutputs(i), {MaxDuration})

NextInteractive ==
  \/ EnterUrl \/ Generate \/ FetchFails \/ InteractiveFetchSucceeds
  \/ Setup \/ AppOnAgentStart \/ BuildTask \/ InteractiveKickoffReturns \/ KickoffRaises
  \/ AppOnAgentComplete \/ Finalize
  \/ AppOnAgentStartInterrupted \/ AppOnAgentCompleteInterrupted
  \/ PipelineReturned \/ PipelineRaised
  \/ GenerateAnother

SpecInteractive == InitInteractive /\ [][NextInteractive]_vars

(* --------------------- app.py: a long video's run --------------------- *)

\* The captions of a long video: CaptionEntries entries of WordsPerEntry words
\* each, more than APP_MAX_WORDS words in all, every word of one character or
\* every word of WordChars characters.  A word is the piece of the speech at
\* its offset.
CaptionEntries == 3
WordsPerEntry == 2334
WordChars == 4
SpokenWord(k, c) == [src |-> "speech", off |-> (k - 1) * (c + 1), len |-> c]
Spoken(first, n, c) ==
  [j \in 1..(2 * n - 1) |-> IF j % 2 = 1 THEN SpokenWord(first + j \div 2, c) ELSE Ch(" ")]
LongVideos ==
  {[does |-> "data", err |-> <<>>,
    entries |-> [e \in 1..CaptionEntries |->
                   Spoken((e - 1) * WordsPerEntry + 1, WordsPerEntry, c)]] :
     c \in {1, WordChars}}

\* The processing stage is entered: Generate was pressed on a valid URL.
InitLongVideo ==
  /\ PipelineIdle /\ ChunkIdle /\ BlogIdle /\ CallsIdle
  /\ GROQ_API_KEY = "gsk"
  /\ url_field \in {url \in Urls : url_valid(url)}
  /\ video_id = extract_video_id(url_field)
  /\ stage = "processing" /\ error = <<>> /\ transcript_raw = <<>>
  /\ seo_metadata = <<>> /\ generation_time = 0
  /\ agent_statuses = [k \in 1..NumAgents |-> Pending]
  /\ script = "fetch" /\ fetched = <<>> /\ err_str = <<>>

LongFetchSucceeds == FetchSucceedsFrom(LongVideos, SessionConfigs)

NextLongVideo ==
  \/ LongFetchSucceeds
  \/ Setup \/ AppOnAgentStart \/ BuildTask \/ SessionKickoffReturns
  \/ AppOnAgentComplete \/ Finalize
  \/ PipelineReturned

SpecLongVideo == InitLongVideo /\ [][NextLongVideo]_vars

(* ------------- agents.py: two calls of run_agent_pipeline ------------- *)

\* Two calls whose statements interleave.  Each call has its own frame (its
\* arguments and locals); a dict lives in the heap and a local names it by its
\* place there (0: not bound yet).  What call r reads and generates is tagged
\* with r, so that a text tells which call it belongs to.
Calls == {1, 2}
OfCall(origin, r) == origin \o "@" \o ToString(r)
CallOrigins(r) == {OfCall("transcript", r)} \cup {OfCall(agent_key(k), r) : k \in 0..(NumAgents - 1)}

InitTwoCalls ==
  /\ PipelineIdle /\ ChunkIdle /\ BlogIdle /\ AppIdle
  /\ heap = <<>>
  /\ \E c \in [Calls -> Configs] :
       frame = [r \in Calls |->
                  [transcript |-> Bulk(OfCall("transcript", r), 1),
                   tone |-> c[r][1], word_count |-> c[r][2], seo_mode |-> c[r][3],
                   pc |-> "entry", i |-> 0, max_tokens |-> 0, results |-> 0,
                   description |-> <<>>, prompts |-> <<>>, raised |-> "none",
                   returned |-> <<>>]]

\* Faulty variant: results names one module-level dict, made by the first call.
CallSetup_shared(r) ==
  /\ frame[r].pc = "entry"
  /\ heap' = IF heap = <<>> THEN << <<>> >> ELSE heap
  /\ frame' = [frame EXCEPT ![r].max_tokens = max_tokens_map(frame[r].word_count),
                            ![r].results = 1,
                            ![r].pc = "build"]
  /\ UNCHANGED <<pipeline_vars, chunk_vars, blog_vars, session_vars>>
\* Lines 229-248 in call r: the token budget; `results = {}` makes a new dict.
CallSetup(r) ==
  /\ frame[r].pc = "entry"
  /\ heap' = Append(heap, <<>>)
  /\ frame' = [frame EXCEPT ![r].max_tokens = max_tokens_map(frame[r].word_count),
                            ![r].results = Len(heap) + 1,
                            ![r].pc = "build"]
  /\ UNCHANGED <<pipeline_vars, chunk_vars, blog_vars, session_vars>>

\* Lines 254-279 in call r (progress_callbacks is None).
CallBuildTask(r) ==
  /\ frame[r].pc = "build"
  /\ frame' = [frame EXCEPT
                 ![r].description =
                    task_description(frame[r].i, heap[frame[r].results], frame[r].transcript,
                                     frame[r].tone, frame[r].word_count, frame[r].seo_mode),
                 ![r].pc = "kickoff"]
  /\ UNCHANGED <<heap, pipeline_vars, chunk_vars, blog_vars, session_vars>>

\* Lines 281-283 and 250 in call r: the kickoff returns, the text is stored in
\* the dict that call r's results names, the loop goes on.
CallKickoffReturns(r) ==
  /\ frame[r].pc = "kickoff"
  /\ heap' = [heap EXCEPT ![frame[r].results] =
                DictSet(@, agent_key(frame[r].i),
                        Bulk(OfCall(agent_key(frame[r].i), r), 1))]
  /\ frame' = [frame EXCEPT
                 ![r].prompts = Append(@, frame[r].description),
                 ![r].i = @ + 1,
                 ![r].pc = IF frame[r].i + 1 < NumAgents THEN "build" ELSE "finalize"]
  /\ UNCHANGED <<pipeline_vars, chunk_vars, blog_vars, session_vars>>

\* Line 281 in call r: the kickoff raises.
CallKickoffRaises(r) ==
  /\ frame[r].pc = "kickoff"
  /\ \E e \in ClientErrors :
       frame' = [frame EXCEPT ![r].prompts = Append(@, frame[r].description),
                              ![r].raised = e,
                              ![r].pc = "raised"]
  /\ UNCHANGED <<heap, pipeline_vars, chunk_vars, blog_vars, session_vars>>

\* Lines 288-296 in call r.
CallFinalize(r) ==
  /\ frame[r].pc = "finalize"
  /\ frame' = [frame EXCEPT ![r].returned = <<Outcome(heap[frame[r].results])>>,
                            ![r].pc = "returned"]
  /\ UNCHANGED <<heap, pipeline_vars, chunk_vars, blog_vars, session_vars>>

NextTwoCalls ==
  \E r \in Calls :
    \/ CallSetup(r)
    \/ CallBuildTask(r)
    \/ CallKickoffReturns(r)
    \/ CallKickoffRaises(r)
    \/ CallFinalize(r)

SpecTwoCalls == InitTwoCalls /\ [][NextTwoCalls]_vars

(* ====================================================================== *)
(*                               Properties                               *)
(* ====================================================================== *)

IsPrefix(a, b) == Len(a) <= Len(b) /\ SubSeq(b, 1, Len(a)) = a
Last(sq) == sq[Len(sq)]
Count(sq, P(_)) == Cardinality({k \in 1..Len(sq) : P(sq[k])})
IsCallback(e) == e.ev \in CallbackKeys
IsComplete(e) == e.ev = "on_agent_complete"
IsKickoff(e) == e.ev = "kickoff"
BothCallbacks == Supplies(progress_callbacks, "on_agent_start")
                   /\ Supplies(progress_callbacks, "on_agent_complete")

\* The five stages as the specification names them, in order.
StageNames ==
  <<"Research Analyst", "Content Strategist", "SEO Optimizer", "Blog Writer", "Quality Reviewer">>
StageKeys ==
  <<"research_analyst", "content_strategist", "seo_optimizer", "blog_writer", "quality_reviewer">>

\* What a fully successful run does, in order, given the callbacks supplied.
RECURSIVE CanonFrom(_, _)
CanonFrom(k, cbs) ==
  IF k > 4 THEN <<>>
  ELSE (IF Supplies(cbs, "on_agent_start")
        THEN <<[ev |-> "on_agent_start", idx |-> k, name |-> StageNames[k + 1]]>> ELSE <<>>)
       \o <<[ev |-> "kickoff", idx |-> k, name |-> StageNames[k + 1]],
            [ev |-> "kickoff_returned", idx |-> k, name |-> StageNames[k + 1]]>>
       \o (IF Supplies(cbs, "on_agent_complete")
           THEN <<[ev |-> "on_agent_complete", idx |-> k, name |-> StageNames[k + 1]]>> ELSE <<>>)
       \o CanonFrom(k + 1, cbs)
Canon(cbs) == CanonFrom(0, cbs)
CallbackTrace == SelectSeq(log, IsCallback)
FullCallbackTrace ==
  [k \in 1..10 |-> [ev |-> IF k % 2 = 1 THEN "on_agent_start" ELSE "on_agent_complete",
                    idx |-> (k - 1) \div 2, name |-> StageNames[(k - 1) \div 2 + 1]]]

\* C1: in a run in which every stage succeeds the callback trace is exactly
\* on_agent_start(0), on_agent_complete(0), ..., on_agent_start(4),
\* on_agent_complete(4), the completions in the order Research, Content
\* Strategist, SEO, Write, Review; and at every moment of a run that has not
\* failed, what has happened so far is a prefix of the one sequential order
\* start(k), kickoff(k), kickoff returned(k), complete(k), k = 0..4, so that
\* stage k+1 is never started before stage k's completion call has returned and
\* its completion callback has fired.
C1_CallbackOrder ==
  /\ raised = "none" => IsPrefix(log, Canon(progress_callbacks))
  /\ pc = "returned" => log = Canon(progress_callbacks)
  /\ (pc = "returned" /\ BothCallbacks) => CallbackTrace = FullCallbackTrace
  /\ (pc = "returned" /\ Supplies(progress_callbacks, "on_agent_complete"))
       => SelectSeq(log, IsComplete)
            = [k \in 1..5 |-> [ev |-> "on_agent_complete", idx |-> k - 1, name |-> StageNames[k]]]
C1_Witness == pc = "returned" /\ BothCallbacks /\ Len(CallbackTrace) = 10

\* The stage whose completion call failed.
FailedStage == (CHOOSE e \in {log[k] : k \in 1..Len(log)} : e.ev = "kickoff_raised").idx

\* C2: if the completion of stage k fails, the run surfaces exactly one error,
\* the completion client's own, unchanged; on_agent_complete is never called
\* for stage k or a later one, on_agent_start never for a stage after k, and no
\* outcome is returned.
C2_FailureSurfaced ==
  client_error # "none" =>
    /\ pc = "raised"
    /\ raised = client_error
    /\ returned = <<>>
    /\ Cardinality({k \in 1..Len(log) : log[k].ev = "kickoff_raised"}) = 1
    /\ Last(log).ev = "kickoff_raised"
    /\ \A k \in 1..Len(log) :
         /\ log[k].ev = "on_agent_complete" => log[k].idx < FailedStage
         /\ log[k].ev = "on_agent_start" => log[k].idx <= FailedStage
C2_Witness ==
  /\ client_error # "none" /\ FailedStage = 2 /\ BothCallbacks
  /\ Count(log, IsComplete) = 2

\* C3: an outcome is returned if and only if all five stages completed: a
\* returned outcome comes with a result mapping holding all five stage keys and
\* with no error, and a run that failed at any stage returns no outcome, not
\* even one built from the stages that did complete.
C3_AllOrNothing ==
  /\ returned # <<>> <=> pc = "returned"
  /\ raised # "none" <=> pc = "raised"
  /\ returned # <<>> => /\ Keys(results) = StageKeys
                        /\ raised = "none" /\ client_error = "none"
                        /\ Len(prompts) = 5
                        /\ returned[1].research = results[1][2]
                        /\ returned[1].outline = results[2][2]
                        /\ returned[1].seo = results[3][2]
  /\ raised # "none" => returned = <<>>
C3_Witness == pc = "raised" /\ client_error # "none" /\ Len(results) = 3 /\ returned = <<>>

\* C4: each stage issues exactly one completion call: the calls made so far are
\* those of stages 0, 1, 2, ... in order, one each; a successful run has made
\* exactly five; a run whose stage k failed has made exactly k + 1, the failed
\* stage is not called again and no later stage is called.
C4_OneCallPerStage ==
  /\ \A k \in 1..Len(prompts) : prompts[k].idx = k - 1
  /\ Count(log, IsKickoff) = Len(prompts)
  /\ pc = "returned" => Len(prompts) = 5
  /\ client_error # "none" => Len(prompts) = FailedStage + 1
C4_Witness == client_error # "none" /\ FailedStage = 2 /\ Len(prompts) = 3

\* C5: the result mapping only grows: it starts empty, after stage i completes
\* it holds exactly the keys of stages 0..i in stage order, and no step of the
\* run changes, reorders or removes what it already holds.
C5_Shape ==
  /\ Keys(results) = SubSeq(StageKeys, 1, Len(results))
  /\ pc \in {"entry", "on_agent_start", "build", "kickoff"} => Len(results) = i
  /\ pc = "on_agent_complete" => Len(results) = i + 1
  /\ pc \in {"finalize", "returned"} => Len(results) = 5
C5_ResultsOnlyGrow == []C5_Shape /\ [][IsPrefix(results, results')]_vars
C5_Witness == Len(results) = 5 /\ \A k \in 1..5 : results[k][2] # <<>>

\* The prompt stage k was kicked off with, and the text stage k produced.
PromptOf(k) == prompts[k + 1].prompt
OutputOf(k) == results[k + 1][2]
Kicked(k) == Len(prompts) > k /\ Len(results) >= k
\* The characters of the prompt of stage k appended after the task's own text.
ContextLen(k) ==
  TextLen(PromptOf(k)) - TextLen(create_tasks(k, transcript, tone, word_count, seo_mode))
    - TextLen(Str("\n\nContext from previous agents:\n", 32))

\* C6: the REVIEW stage's prompt contains the entire WRITE stage output,
\* whatever its length.
C6_ReviewReadsFullWrite == Kicked(4) => Holds(PromptOf(4), OutputOf(3))

\* C7: the WRITE stage's prompt holds an excerpt of the OUTLINE output and an
\* excerpt of the SEO output whenever these are not empty, and no RESEARCH
\* output text.
C7_WriteReadsOutlineAndSeo ==
  Kicked(3) =>
    /\ OutputOf(1) # <<>> => CharsFrom(PromptOf(3), "content_strategist") > 0
    /\ OutputOf(2) # <<>> => CharsFrom(PromptOf(3), "seo_optimizer") > 0
    /\ CharsFrom(PromptOf(3), "research_analyst") = 0

\* C8: the OUTLINE stage's prompt holds prior-stage text from RESEARCH's output
\* only, cut to a fixed excerpt length (what is appended to the task's own text
\* is at most 3000 characters: the label and the first 2977 characters of the
\* research); it holds no text of any other stage's output.
C8_OutlineReadsResearchExcerpt ==
  Kicked(1) =>
    LET excerpt == CONTEXT_LIMIT - TextLen(PreviousLabel)
    IN /\ Holds(PromptOf(1), Prefix(OutputOf(0), excerpt))
       /\ CharsFrom(PromptOf(1), "research_analyst") = Min(TextLen(OutputOf(0)), excerpt)
       /\ ContextLen(1) <= CONTEXT_LIMIT
       /\ \A k \in 2..5 : CharsFrom(PromptOf(1), StageKeys[k]) = 0
C8_Witness ==
  /\ Kicked(1)
  /\ TextLen(OutputOf(0)) > CONTEXT_LIMIT - TextLen(PreviousLabel)
  /\ CharsFrom(PromptOf(1), "research_analyst") = CONTEXT_LIMIT - TextLen(PreviousLabel)

\* C9: chunk_transcript(text, max_words) returns text itself, whitespace
\* included, whenever text has at most max_words words, exactly max_words
\* included.
C9_ShortTextUnchanged ==
  (chunked # <<>> /\ Len(Split(raw_transcript)) <= max_words) => chunked[1] = raw_transcript
C9_Witness ==
  /\ chunked # <<>>
  /\ Len(Split(raw_transcript)) = max_words /\ max_words >= 2
  /\ raw_transcript # Join(Space, Split(raw_transcript))
  /\ chunked[1] = raw_transcript

\* C10: for a text of more than max_words words chunk_transcript returns the
\* first max_words \div 3 words, an elision marker, the max_words \div 3 words
\* starting at word n \div 2 - chunk \div 2, a second elision marker, and the
\* last max_words \div 3 words, each window of exactly that size.
C10_ThreeEqualWindows ==
  LET words == Split(raw_transcript)
      n == Len(words)
      chunk == max_words \div 3
      mid_s == n \div 2 - chunk \div 2
  IN (chunked # <<>> /\ n > max_words) =>
       chunked[1] = Join(Space, SubSeq(words, 1, chunk)) \o MiddleMarker
                      \o Join(Space, SubSeq(words, mid_s + 1, mid_s + chunk)) \o EndMarker
                      \o Join(Space, SubSeq(words, n - chunk + 1, n))

\* The words of a text hold the word w.
HasWord(t, w) == \E k \in 1..Len(Split(t)) : Split(t)[k] = w

\* C11: for every max_words >= 0 and every text of more than max_words words,
\* chunk_transcript(text, max_words) has at most max_words + 4 words (the
\* windows and the four words of the two markers), and it holds the text's
\* first word, its last word and an elision marker.
C11_BoundedWithEnds ==
  LET words == Split(raw_transcript)
      n == Len(words)
  IN (chunked # <<>> /\ n > max_words) =>
       /\ Len(Split(chunked[1])) <= max_words + 4
       /\ HasWord(chunked[1], words[1])
       /\ HasWord(chunked[1], words[n])
       /\ Holds(chunked[1], MiddleMarker) \/ Holds(chunked[1], EndMarker)

\* C12: when chunk_transcript(text, max_words) has at most max_words words,
\* chunk_transcript applied to it again with the same max_words returns the
\* same string.
C12_Idempotent ==
  (rechunked # <<>> /\ Len(Split(chunked[1])) <= max_words) => rechunked[1] = chunked[1]
C12_Witness ==
  /\ rechunked # <<>>
  /\ max_words >= 2 /\ Len(Split(chunked[1])) = max_words
  /\ chunked[1] # Join(Space, Split(chunked[1]))
  /\ rechunked[1] = chunked[1]
\* What makes C12's case narrow: a text that was cut never has at most
\* max_words words (three windows and four marker words exceed max_words), so
\* the second call sees a text the first call returned as it was.
CutTextExceedsBound ==
  (chunked # <<>> /\ Len(Split(raw_transcript)) > max_words) =>
    Len(Split(chunked[1])) > max_words

\* The outputs stored under a key of the result mapping (none when the key is
\* absent), and a field that is the stored output, or empty when there is none.
Stored(key) == {results[k][2] : k \in {j \in 1..Len(results) : results[j][1] = key}}
FieldIs(field, key) == IF Stored(key) = {} THEN field = <<>> ELSE field \in Stored(key)

\* C13: the final document of an outcome is the REVIEW stage's output when the
\* result mapping holds one, the WRITE stage's output when it holds no REVIEW
\* output but a WRITE output, and the empty text when it holds neither; the
\* research, outline and seo fields are the outputs of those stages, or the
\* empty text when absent.
C13_FinalDocument ==
  returned # <<>> =>
    /\ IF Stored("quality_reviewer") # {}
       THEN returned[1].blog_content \in Stored("quality_reviewer")
       ELSE FieldIs(returned[1].blog_content, "blog_writer")
    /\ FieldIs(returned[1].research, "research_analyst")
    /\ FieldIs(returned[1].outline, "content_strategist")
    /\ FieldIs(returned[1].seo, "seo_optimizer")
C13_Witness ==
  /\ returned # <<>>
  /\ Stored("quality_reviewer") = {} /\ Stored("research_analyst") = {}
  /\ Stored("blog_writer") = {Bulk("blog_writer", 1)}
  /\ returned[1].blog_content = Bulk("blog_writer", 1)
  /\ returned[1].research = <<>>

\* C14: the word count of the outcome is the number of whitespace-delimited
\* tokens of the final document after every # * ` [ ] ( ) > ~ _ is removed:
\* it equals count_words of the final document.
C14_WordCountStripsMarkdown ==
  returned # <<>> => returned[1].word_count = count_words(returned[1].blog_content)

\* C15: no configuration value makes a run fail before its first stage: a
\* word_count outside {800, 1500, 2500, 4000} selects the output-token budget
\* 2500, the budget of the 1500-word target, and a tone that is not one of the
\* five selects the Professional guidance (it is what the WRITE prompt holds);
\* a run only ever fails in a callback or a kickoff.  The budget is chosen once,
\* at the start, and every stage's completion is asked with it.
C15_ConfigNeverFails ==
  /\ raised # "none" => log # <<>>
  /\ pc # "entry" =>
       /\ max_tokens \in {1500, 2500, 4000, 6000}
       /\ word_count \notin {800, 1500, 2500, 4000} => max_tokens = 2500
       /\ word_count = 1500 => max_tokens = 2500
  /\ \A k \in 1..Len(prompts) : prompts[k].max_tokens = max_tokens
  /\ (Kicked(3) /\ tone \notin Tones) =>
       Holds(PromptOf(3), tone_instructions("Professional"))
C15_Witness ==
  /\ pc = "returned"
  /\ word_count \notin {800, 1500, 2500, 4000} /\ tone \notin Tones
  /\ Len(prompts) = NumAgents
  /\ \A k \in 1..Len(prompts) : prompts[k].max_tokens = 2500
  /\ Holds(PromptOf(3), tone_instructions("Professional"))

\* C16: for a document whose first three lines are the labelled SEO Title,
\* Meta Description and Primary Keyword lines, clean_blog_for_display removes
\* exactly those three lines: what it returns is every other line, a body line
\* that merely mentions one of the phrases included, unchanged and in order.
C16_RemovesOnlyMetadataLines ==
  LET lines == SplitLines(blog_content)
  IN (clean_blog # <<>> /\ Len(lines) >= 3 /\ SubSeq(lines, 1, 3) = MetadataTop) =>
       clean_blog[1] = Join(Newline, SubSeq(lines, 4, Len(lines)))

\* C17: the pipeline is never invoked without a non-empty raw transcript:
\* run_agent_pipeline is only ever running after fetch_transcript returned
\* success to the same script run, a successful fetch_transcript carries a
\* non-empty raw text (which is what the session stores and the pipeline is
\* given), and after a failed fetch the session is back at stage "input" with
\* the error message set, non-empty, and no agent started.
C17_PipelineNeedsTranscript ==
  /\ pc # "idle" =>
       /\ fetched # <<>> /\ fetched[1].success
       /\ transcript_raw = fetched[1].raw
       /\ TextLen(transcript_raw) > 0 /\ TextLen(transcript) > 0
  /\ (fetched # <<>> /\ fetched[1].success) => TextLen(fetched[1].raw) > 0
  /\ (fetched # <<>> /\ ~fetched[1].success) =>
       /\ stage = "input" /\ script = "waiting" /\ pc = "idle"
       /\ error = <<fetched[1].error_message>> /\ TextLen(error[1]) > 0
       /\ \A k \in 1..NumAgents : agent_statuses[k] = Pending
C17_Witness ==
  /\ pc = "kickoff" /\ i = 0
  /\ fetched # <<>> /\ fetched[1].success
  /\ transcript_raw = Str("w2", 2) \o Space \o Str("w1", 2)
  /\ transcript = transcript_raw
  /\ agent_statuses[1].status = "active"

\* The kickoffs of the run so far and how each ended.
IsKickoffEvent(e) == e.ev \notin CallbackKeys
\* C18: progress callbacks have no effect on the control flow, whatever they
\* do: the run goes the way it goes with progress_callbacks = None and the same
\* completion results.  Such a run executes the stages in order, stops only at
\* a failed completion, whose error it raises, and returns the outcome of the
\* five results otherwise.
C18_CallbacksDoNotSteer ==
  /\ IsPrefix(SelectSeq(log, IsKickoffEvent),
              IF client_error = "none" THEN Canon([none |-> TRUE, keys |-> {}])
              ELSE SubSeq(Canon([none |-> TRUE, keys |-> {}]), 1, 2 * Len(results) + 1)
                     \o <<Event("kickoff_raised", Len(results))>>)
  /\ raised = client_error
  /\ pc \in {"returned", "raised"} =>
       IF client_error = "none"
       THEN Len(results) = NumAgents /\ returned = <<Outcome(results)>>
       ELSE returned = <<>>

\* C19: prompt construction is deterministic: the description of each stage's
\* task, as built and as sent, is the value of one function of the stage, the
\* transcript, tone, word_count, seo_mode and the results of the stages before
\* it; nothing else of the run (the durations measured, the callbacks, what
\* earlier iterations built) has a part in it.
C19_PromptFromInputsOnly ==
  /\ \A k \in 1..Len(prompts) :
       prompts[k].prompt =
         task_description(k - 1, SubSeq(results, 1, k - 1), transcript, tone, word_count,
                          seo_mode)
  /\ pc = "kickoff" =>
       description = task_description(i, results, transcript, tone, word_count, seo_mode)
C19_Witness ==
  /\ pc = "returned" /\ Len(prompts) = NumAgents
  /\ duration = MaxDuration
  /\ TextLen(OutputOf(0)) > CONTEXT_LIMIT - TextLen(PreviousLabel)
  /\ TextLen(transcript) > TRANSCRIPT_LIMIT
  /\ PromptOf(3) # PromptOf(4)

\* Text t holds nothing that call r read or generated.
NothingOf(t, r) == \A j \in 1..Len(t) : t[j].src \notin CallOrigins(r)
\* C20: two calls of run_agent_pipeline whose steps interleave never share a
\* result mapping: their results are different dicts; the dict of a call holds
\* the outputs of that call's stages, one per completed stage, none of the
\* other call's (nothing is overwritten); no prompt and no returned outcome of
\* a call holds text of the other call.
C20_CallsShareNothing ==
  \A r \in Calls :
    LET other == 3 - r
        mine == frame[r].results
    IN /\ mine # 0 => mine # frame[other].results
       /\ mine # 0 =>
            /\ Len(heap[mine]) = frame[r].i
            /\ \A k \in 1..Len(heap[mine]) :
                 heap[mine][k] = <<agent_key(k - 1), Bulk(OfCall(agent_key(k - 1), r), 1)>>
       /\ \A k \in 1..Len(frame[r].prompts) : NothingOf(frame[r].prompts[k], other)
       /\ frame[r].returned # <<>> =>
            /\ NothingOf(frame[r].returned[1].blog_content, other)
            /\ NothingOf(frame[r].returned[1].research, other)
            /\ NothingOf(frame[r].returned[1].outline, other)
            /\ NothingOf(frame[r].returned[1].seo, other)
            /\ frame[r].returned[1].blog_content = Bulk(OfCall("quality_reviewer", r), 1)
C20_Witness ==
  /\ frame[1].pc = "returned" /\ frame[2].pc = "kickoff" /\ frame[2].i = 3
  /\ frame[2].results = 1 /\ frame[1].results = 2
  /\ CharsFrom(frame[2].description, OfCall("seo_optimizer", 2)) = 1
  /\ frame[1].returned[1].research = Bulk(OfCall("research_analyst", 1), 1)

\* The three fixed messages of a failed generation.
RateLimitedMessage == Str("Rate limit reached.", 59)
InvalidCredentialsMessage == Str("Invalid API key.", 66)
InputTooLargeMessage == Str("Video is too long for the free tier.", 74)

\* C21: the category of a pipeline error does not steer the session: whatever
\* was raised, the step that follows takes the session from 'processing' to
\* 'input' with a non-empty message stored and blog_content empty, the run is
\* over and nothing is asked of the completion client again; in stage 'input'
\* no run is in progress.
C21_NoRunInInput == stage = "input" => (script = "waiting" /\ pc = "idle" /\ prompts = <<>>)
C21_FailureStep ==
  (script = "pipeline" /\ pc = "raised") =>
    /\ stage = "processing" /\ stage' = "input"
    /\ error' # <<>> /\ TextLen(error'[1]) > 0
    /\ blog_content' = <<>>
    /\ script' = "waiting" /\ pc' = "idle" /\ prompts' = <<>>
C21_SameTransition == []C21_NoRunInInput /\ [][C21_FailureStep]_vars
C21_Witness ==
  /\ stage = "input" /\ script = "waiting"
  /\ err_str # <<>> /\ error = <<InputTooLargeMessage>>
  /\ blog_content = <<>>
  /\ agent_statuses[3].status = "active"

\* C23: the message stored for a pipeline error is chosen by fixed precedence
\* on the error text, matched without regard to case: the rate-limit message
\* if it holds 'rate' or '429'; otherwise the invalid-credentials message if it
\* holds both 'invalid' and 'api'; otherwise the input-too-large message if it
\* holds both 'token' and 'limit'; otherwise the generic message around at
\* most the first 200 characters of the error text.
C23_MessageByPrecedence ==
  err_str # <<>> =>
    LET e == err_str[1]
        has(k) == InLower(e, {k})
        rate == has("rate") \/ InText(e, {"429"})
        invalid == has("invalid") /\ has("api")
        large == has("token") /\ has("limit")
    IN /\ error # <<>>
       /\ rate => error[1] = RateLimitedMessage
       /\ (~rate /\ invalid) => error[1] = InvalidCredentialsMessage
       /\ (~rate /\ ~invalid /\ large) => error[1] = InputTooLargeMessage
       /\ (~rate /\ ~invalid /\ ~large) =>
            /\ error[1] = Str("Generation failed: ", 19) \o Prefix(e, 200)
                            \o Str(". Please try again.", 19)
            /\ TextLen(error[1]) <= 19 + 200 + 19
C23_Witness ==
  /\ err_str # <<>>
  /\ InLower(err_str[1], {"rate"}) /\ InLower(err_str[1], {"token"})
  /\ InLower(err_str[1], {"limit"})
  /\ error = <<RateLimitedMessage>>
\* The generic message cuts a long error text.
C23_WitnessCut ==
  /\ err_str # <<>> /\ TextLen(err_str[1]) > 200
  /\ error # <<>> /\ TextLen(error[1]) = 19 + 200 + 19

\* An item of a text is a piece of the speech inside a window of words.
FromWindow(x, window) ==
  /\ x.src = "speech"
  /\ x.off >= window[1][1].off /\ x.off <= window[Len(window)][1].off

\* C22: for a raw transcript of more than 7000 words, the RESEARCH stage's
\* prompt holds text of the transcript's final window and text of its middle
\* window, not only text of its opening.
C22_SamplingReachesModel ==
  (Len(prompts) >= 1 /\ Len(Split(transcript_raw)) > APP_MAX_WORDS) =>
    LET words == Split(transcript_raw)
        n == Len(words)
        chunk == APP_MAX_WORDS \div 3
        mid_s == n \div 2 - chunk \div 2
        middle == SubSeq(words, mid_s + 1, mid_s + chunk)
        final == SubSeq(words, n - chunk + 1, n)
        prompt == prompts[1].prompt
    IN /\ \E k \in 1..Len(prompt) : FromWindow(prompt[k], final)
       /\ \E k \in 1..Len(prompt) : FromWindow(prompt[k], middle)

\* C24: in stage 'output', whatever was done in the sidebar, the three export
\* file names carry the id of the video whose transcript the displayed post
\* was generated from.
C24_ExportNamesOfSourceVideo ==
  (stage = "output" /\ script = "waiting") =>
    /\ fetched # <<>> /\ fetched[1].success
    /\ download_buttons = ExportFileNames(fetched[1].video_id)

\* The labelled outputs of stages 0 .. k - 1, in stage order, a blank line
\* between them, and what the prompt of stage k holds after the task's own
\* text and the context heading.
RECURSIVE LabelledOutputs(_)
LabelledOutputs(k) ==
  IF k = 0 THEN <<>>
  ELSE (IF k = 1 THEN <<>> ELSE LabelledOutputs(k - 1) \o <<Ch("\n"), Ch("\n")>>)
         \o PreviousLabel \o OutputOf(k - 1)
OwnText(k) ==
  create_tasks(k, transcript, tone, word_count, seo_mode)
    \o Str("\n\nContext from previous agents:\n", 32)
AppendedContext(k) == SubSeq(PromptOf(k), Len(OwnText(k)) + 1, Len(PromptOf(k)))

\* C25: for every stage k >= 1 the context appended to the stage's prompt is
\* the first 3000 characters of the labelled outputs of stages 0 .. k - 1 put
\* together in stage order: it is never longer than 3000 characters, and it
\* holds text of stage j's output only after the whole output of every stage
\* before j.
C25_ContextIsCutConcatenation ==
  \A k \in 1..4 :
    Kicked(k) =>
      LET context == AppendedContext(k)
          from == [h \in 0..(k - 1) |-> CharsFrom(context, StageKeys[h + 1])]
      IN /\ IsPrefix(OwnText(k), PromptOf(k))
         /\ context = Prefix(LabelledOutputs(k), CONTEXT_LIMIT)
         /\ TextLen(context) <= CONTEXT_LIMIT
         /\ \A j \in 1..(k - 1) :
              from[j] > 0 => \A h \in 0..(j - 1) : from[h] = TextLen(OutputOf(h))
C25_Witness ==
  /\ Kicked(3)
  /\ TextLen(OutputOf(0)) = CONTEXT_LIMIT \div 2 /\ TextLen(OutputOf(2)) > 0
  /\ CharsFrom(AppendedContext(3), "research_analyst") = CONTEXT_LIMIT \div 2
  /\ CharsFrom(AppendedContext(3), "content_strategist")
       = CONTEXT_LIMIT - CONTEXT_LIMIT \div 2 - 2 * TextLen(PreviousLabel) - 2
  /\ CharsFrom(AppendedContext(3), "seo_optimizer") = 0
  /\ TextLen(AppendedContext(3)) = CONTEXT_LIMIT

\* The words of a marker, the words of a text that are not a marker's, and a
\* text whose words all differ.
MarkerWords == {Split(m)[k] : m \in {MiddleMarker, EndMarker}, k \in 1..2}
IsOriginalWord(w) == w \notin MarkerWords
DistinctWords(words) == \A a, b \in 1..Len(words) : words[a] = words[b] => a = b

\* C26: for every max_words >= 3 and every text of more than max_words words
\* the three windows do not overlap and follow each other: the head window
\* ends at or before the start of the middle window, which ends at or before
\* the start of the tail window; what chunk_transcript returns holds words of
\* the text at strictly increasing positions, none twice.
C26_WindowsDisjoint ==
  LET words == Split(raw_transcript)
      n == Len(words)
      chunk == max_words \div 3
      mid_s == n \div 2 - chunk \div 2
      kept == SelectSeq(Split(chunked[1]), IsOriginalWord)
      Position(w) == CHOOSE k \in 1..n : words[k] = w
  IN (chunked # <<>> /\ max_words >= 3 /\ n > max_words) =>
       /\ 0 + chunk <= mid_s /\ mid_s + chunk <= n - chunk
       /\ Len(kept) = 3 * chunk
       /\ DistinctWords(words) =>
            /\ \A k \in 1..Len(kept) : \E j \in 1..n : words[j] = kept[k]
            /\ \A a, b \in 1..Len(kept) : a < b => Position(kept[a]) < Position(kept[b])
C26_Witness ==
  /\ chunked # <<>> /\ max_words = 6 /\ Len(Split(raw_transcript)) = 7
  /\ DistinctWords(Split(raw_transcript))
  /\ SelectSeq(Split(chunked[1]), IsOriginalWord)
       = <<Word(1), Word(2), Word(3), Word(4), Word(6), Word(7)>>

StatusOf(k) == agent_statuses[k].status

\* C27: in every session state the five agent statuses, read in pipeline
\* order, have the shape complete* active? pending*: at most one agent is
\* active, and no agent is complete or active while an earlier one is pending
\* or complete while an earlier one is active.
C27_StatusShape ==
  /\ \A k \in 1..NumAgents : StatusOf(k) \in {"pending", "active", "complete"}
  /\ Cardinality({k \in 1..NumAgents : StatusOf(k) = "active"}) <= 1
  /\ \A k \in 1..(NumAgents - 1) :
       /\ StatusOf(k) = "pending" => StatusOf(k + 1) = "pending"
       /\ StatusOf(k) = "active" => StatusOf(k + 1) = "pending"

\* C28: the stage is always 'input', 'processing' or 'output' and changes only
\* from 'input' or 'output' to 'processing' by Generate (with a valid URL in
\* the box and an API key configured), from 'processing' to 'output' when all
\* five stages have completed, from 'processing' to 'input' on a transcript or
\* pipeline failure, and from 'output' to 'input' by Generate Another; in
\* stage 'processing' a run is in progress and Generate is disabled, so that
\* no run starts before the one in progress has ended.
C28_Stages ==
  /\ stage \in {"input", "processing", "output"}
  /\ stage = "processing" <=> script \in {"fetch", "pipeline"}
  /\ stage = "processing" => ~ENABLED Generate
C28_StageStep ==
  /\ stage' # stage =>
       \/ /\ stage \in {"input", "output"} /\ stage' = "processing"
          /\ url_valid(url_field) /\ GROQ_API_KEY # ""
          /\ script = "waiting" /\ script' = "fetch"
       \/ /\ stage = "processing" /\ stage' = "output"
          /\ pc = "returned" /\ Len(prompts) = NumAgents /\ Keys(results) = StageKeys
          /\ \A k \in 1..NumAgents : agent_statuses[k].status = "complete"
       \/ /\ stage = "processing" /\ stage' = "input"
          /\ \/ script = "fetch" /\ fetched' # <<>> /\ ~fetched'[1].success
             \/ script = "pipeline" /\ pc = "raised"
          /\ error' # <<>>
       \/ /\ stage = "output" /\ stage' = "input"
          /\ script = "waiting" /\ script' = "waiting"
  /\ (script = "waiting" /\ script' # "waiting") => (stage # "processing" /\ script' = "fetch")
C28_StageTransitions == []C28_Stages /\ [][C28_StageStep]_vars
C28_Witness ==
  /\ stage = "processing" /\ script = "pipeline" /\ pc = "kickoff" /\ i = 2
  /\ seo_metadata # <<>> /\ seo_metadata[1].seo_title # <<>>

\* C29: whenever the stage is 'input', also after a run that failed part-way,
\* every agent's status is 'pending' with duration 0.
C29_PendingInInput ==
  stage = "input" => \A k \in 1..NumAgents : agent_statuses[k] = Pending

\* parse_blog_metadata takes a value from line l.
TakenFrom(l) == ParseLine(EmptyMeta, l) # EmptyMeta

\* C30: every line from which parse_blog_metadata takes a value for
\* seo_title, meta_description, primary_keyword or secondary_keywords is
\* absent from what clean_blog_for_display returns for the same document: no
\* line of the cleaned text is such a line, and each value stored comes from a
\* line of the document that the cleaned text does not hold.
C30_ParsedLinesAreRemoved ==
  (clean_blog # <<>> /\ seo_metadata # <<>>) =>
    LET lines == SplitLines(blog_content)
        shown == SplitLines(clean_blog[1])
        Shown(l) == \E k \in 1..Len(shown) : shown[k] = l \/ shown[k] = Strip(l)
        From(field) ==
          {k \in 1..Len(lines) : TakenFrom(lines[k])
                                   /\ ParseLine(EmptyMeta, lines[k])[field] = seo_metadata[1][field]}
    IN /\ \A k \in 1..Len(lines) : TakenFrom(lines[k]) => ~Shown(lines[k])
       /\ \A k \in 1..Len(shown) : ~TakenFrom(shown[k])
       /\ \A field \in DOMAIN EmptyMeta :
            seo_metadata[1][field] # <<>> => From(field) # {}
C30_Witness ==
  /\ clean_blog = <<Str("Body", 4)>>
  /\ seo_metadata # <<>>
  /\ seo_metadata[1].seo_title = Str("Title", 5)
  /\ seo_metadata[1].secondary_keywords = <<Str("green", 5), Str("black", 5)>>

====
